---- MODULE Spec2Model ----
(***************************************************************************)
(* Verification model of animefs: the prioritized task scheduler, the      *)
(* worker that owns the byte container, pages, books and the disk B-tree.  *)
(***************************************************************************)
EXTENDS Integers, Sequences, FiniteSets, TLC

(***************************************************************************)
(* Bounds of the model.                                                    *)
(***************************************************************************)
MaxTasks == 2
MaxPolls == 3

(***************************************************************************)
(* Program constants.                                                      *)
(***************************************************************************)
FS_HEADER_LEN == 10
PAGE_HEADER_LEN == 9

Priorities == {"High", "Normal", "Low"}

VARIABLES
    \* ---- FilesystemTasksScheduler ----
    listener,       \* messages in flight on the scheduler's input channel
    tasks_high, tasks_normal, tasks_low,
    tasks_polls,    \* pending pollers: reply channels awaiting a task
    sched_pc,       \* position of the scheduler inside update()
    last_task,      \* update()'s local: <<>> or <<[task, priority]>>
    sender,         \* update()'s local: the poller popped from tasks_polls
    handlers,       \* number of live FilesystemTasksHandler clones
    \* ---- reply channels created by FilesystemTasksHandler::poll ----
    rx,             \* state of the receiving end of each poll channel
    tx_alive,       \* whether the Sender of each poll channel still exists
    reply,          \* content of each poll channel (capacity 1)
    next_poll,      \* next unused poll channel
    \* ---- history of the scheduler (for the properties) ----
    next_task,      \* next unused task id
    task_prio,      \* priority each task was sent with, by task id
    pushed,         \* task ids in the order the scheduler received them
    handed,         \* hand-offs in order: [task, poll]
    failed,         \* ids of the tasks whose send to a poller failed
    requeued,       \* ids of the tasks put back by push_front
    \* ---- FilesystemWorker ----
    io,             \* the byte container owned by the worker
    header,         \* hot cache of the filesystem header
    worker_pc,      \* the worker thread: "idle", "polling" or "dead"
    \* ---- one client working through pages, a book or a tree ----
    client,         \* the client's handle: the book or the tree it uses
    wrote,          \* page body bytes stored by a WritePage: <<page, offset>>
    last            \* the client's last operation and what it returned

sched_vars == <<listener, tasks_high, tasks_normal, tasks_low, tasks_polls,
                sched_pc, last_task, sender, handlers>>
poll_vars == <<rx, tx_alive, reply, next_poll>>
hist_vars == <<next_task, task_prio, pushed, handed, failed, requeued>>

store_vars == <<io, header, worker_pc>>
client_vars == <<client, wrote, last>>

\* Everything outside the scheduler and its channels.
rest_vars == <<store_vars, client_vars>>

vars == <<sched_vars, poll_vars, hist_vars, rest_vars>>

PollIds == 1..MaxPolls

(***************************************************************************)
(* FilesystemTasksScheduler::push, push_front, poll                        *)
(***************************************************************************)
\* Queues as one record, so that the operators below return all three.
Queues == [high |-> tasks_high, normal |-> tasks_normal, low |-> tasks_low]

\* push that puts the task at the front of its queue.
push_lifo(q, task, priority) ==
    CASE priority = "High"   -> [q EXCEPT !.high = <<task>> \o @]
      [] priority = "Normal" -> [q EXCEPT !.normal = <<task>> \o @]
      [] priority = "Low"    -> [q EXCEPT !.low = <<task>> \o @]

push(q, task, priority) ==
    CASE priority = "High"   -> [q EXCEPT !.high = Append(@, task)]
      [] priority = "Normal" -> [q EXCEPT !.normal = Append(@, task)]
      [] priority = "Low"    -> [q EXCEPT !.low = Append(@, task)]

\* push_front that puts the task at the back of its queue.
push_front_at_back(q, task, priority) ==
    CASE priority = "High"   -> [q EXCEPT !.high = Append(@, task)]
      [] priority = "Normal" -> [q EXCEPT !.normal = Append(@, task)]
      [] priority = "Low"    -> [q EXCEPT !.low = Append(@, task)]

\* push_front that forgets the task.
push_front_dropping(q, task, priority) == q

push_front(q, task, priority) ==
    CASE priority = "High"   -> [q EXCEPT !.high = <<task>> \o @]
      [] priority = "Normal" -> [q EXCEPT !.normal = <<task>> \o @]
      [] priority = "Low"    -> [q EXCEPT !.low = <<task>> \o @]

\* poll with the Normal queue served before the High queue.
poll_normal_first(q) ==
    IF q.normal # <<>> THEN
        [q |-> [q EXCEPT !.normal = Tail(@)],
         got |-> <<[task |-> Head(q.normal), priority |-> "Normal"]>>]
    ELSE IF q.high # <<>> THEN
        [q |-> [q EXCEPT !.high = Tail(@)],
         got |-> <<[task |-> Head(q.high), priority |-> "High"]>>]
    ELSE IF q.low # <<>> THEN
        [q |-> [q EXCEPT !.low = Tail(@)],
         got |-> <<[task |-> Head(q.low), priority |-> "Low"]>>]
    ELSE [q |-> q, got |-> <<>>]

\* poll with the Low queue served before the other two.
poll_low_first(q) ==
    IF q.low # <<>> THEN
        [q |-> [q EXCEPT !.low = Tail(@)],
         got |-> <<[task |-> Head(q.low), priority |-> "Low"]>>]
    ELSE IF q.high # <<>> THEN
        [q |-> [q EXCEPT !.high = Tail(@)],
         got |-> <<[task |-> Head(q.high), priority |-> "High"]>>]
    ELSE IF q.normal # <<>> THEN
        [q |-> [q EXCEPT !.normal = Tail(@)],
         got |-> <<[task |-> Head(q.normal), priority |-> "Normal"]>>]
    ELSE [q |-> q, got |-> <<>>]

\* poll returns the queues after the pop and <<>> or <<[task, priority]>>.
poll(q) ==
    IF q.high # <<>> THEN
        [q |-> [q EXCEPT !.high = Tail(@)],
         got |-> <<[task |-> Head(q.high), priority |-> "High"]>>]
    ELSE IF q.normal # <<>> THEN
        [q |-> [q EXCEPT !.normal = Tail(@)],
         got |-> <<[task |-> Head(q.normal), priority |-> "Normal"]>>]
    ELSE IF q.low # <<>> THEN
        [q |-> [q EXCEPT !.low = Tail(@)],
         got |-> <<[task |-> Head(q.low), priority |-> "Low"]>>]
    ELSE [q |-> q, got |-> <<>>]

SetQueues(q) ==
    /\ tasks_high' = q.high
    /\ tasks_normal' = q.normal
    /\ tasks_low' = q.low

(***************************************************************************)
(* FilesystemTasksHandler::send and ::poll (client side)                   *)
(***************************************************************************)
\* send(task, priority): one PushTask message on the input channel.
HandlerSend(priority) ==
    /\ UNCHANGED rest_vars
    /\ handlers > 0
    /\ next_task <= MaxTasks
    /\ listener' = Append(listener,
            [type |-> "PushTask", task |-> [id |-> next_task], priority |-> priority])
    /\ task_prio' = Append(task_prio, priority)
    /\ next_task' = next_task + 1
    /\ UNCHANGED <<tasks_high, tasks_normal, tasks_low, tasks_polls, sched_pc,
                   last_task, sender, handlers, poll_vars, pushed, handed,
                   failed, requeued>>

\* poll(), first half: create a bounded(1) channel and send its Sender.
HandlerPoll ==
    /\ UNCHANGED rest_vars
    /\ handlers > 0
    /\ next_poll <= MaxPolls
    /\ listener' = Append(listener, [type |-> "PollTask", sender |-> next_poll])
    /\ rx' = [rx EXCEPT ![next_poll] = "waiting"]
    /\ tx_alive' = [tx_alive EXCEPT ![next_poll] = TRUE]
    /\ next_poll' = next_poll + 1
    /\ UNCHANGED <<tasks_high, tasks_normal, tasks_low, tasks_polls, sched_pc,
                   last_task, sender, handlers, reply, hist_vars>>

\* poll(), second half: recv() returns the task, or an error once the
\* channel is empty and its Sender is gone.
HandlerPollRecv(p) ==
    /\ UNCHANGED rest_vars
    /\ rx[p] = "waiting"
    /\ \/ /\ reply[p] # <<>>
          /\ rx' = [rx EXCEPT ![p] = "received"]
       \/ /\ reply[p] = <<>>
          /\ ~tx_alive[p]
          /\ rx' = [rx EXCEPT ![p] = "failed"]
    /\ UNCHANGED <<sched_vars, tx_alive, reply, next_poll, hist_vars>>

\* poll_async(): the future is dropped before completion, which drops
\* the receiver of the reply channel.
HandlerPollCancel(p) ==
    /\ UNCHANGED rest_vars
    /\ rx[p] = "waiting"
    /\ rx' = [rx EXCEPT ![p] = "dropped"]
    /\ UNCHANGED <<sched_vars, tx_alive, reply, next_poll, hist_vars>>

\* A handler clone is dropped.
HandlerDrop ==
    /\ UNCHANGED rest_vars
    /\ handlers > 0
    /\ handlers' = handlers - 1
    /\ UNCHANGED <<listener, tasks_high, tasks_normal, tasks_low, tasks_polls,
                   sched_pc, last_task, sender, poll_vars, hist_vars>>

(***************************************************************************)
(* FilesystemTasksScheduler::update, run in a loop by daemonize().         *)
(* The scheduler thread interleaves with the handlers between the steps:   *)
(* one try_recv, one pass of the poller loop up to the send, the send.     *)
(***************************************************************************)
IsDisconnected(p) == rx[p] # "waiting"

\* The scheduler value is dropped when the daemonized loop breaks: its
\* queues and the Senders held in tasks_polls go with it.
SchedulerDropped ==
    /\ sched_pc' = "stopped"
    /\ tasks_high' = <<>>
    /\ tasks_normal' = <<>>
    /\ tasks_low' = <<>>
    /\ tasks_polls' = <<>>
    /\ tx_alive' = [p \in PollIds |->
            tx_alive[p] /\ \A i \in 1..Len(tasks_polls) : tasks_polls[i] # p]

\* try_recv that reports Disconnected as soon as every handler is gone,
\* with messages still unread.
SchedulerRecvUndrained ==
    /\ UNCHANGED rest_vars
    /\ sched_pc = "recv"
    /\ IF handlers = 0 THEN
          /\ SchedulerDropped
          /\ UNCHANGED <<listener, pushed>>
       ELSE IF listener # <<>> THEN
          LET msg == Head(listener) IN
          /\ listener' = Tail(listener)
          /\ IF msg.type = "PushTask" THEN
                /\ SetQueues(push(Queues, msg.task, msg.priority))
                /\ pushed' = Append(pushed, msg.task.id)
                /\ UNCHANGED tasks_polls
             ELSE
                /\ tasks_polls' = Append(tasks_polls, msg.sender)
                /\ UNCHANGED <<tasks_high, tasks_normal, tasks_low, pushed>>
          /\ UNCHANGED <<sched_pc, tx_alive>>
       ELSE
          /\ sched_pc' = "serve"
          /\ UNCHANGED <<listener, tasks_high, tasks_normal, tasks_low,
                         tasks_polls, tx_alive, pushed>>
    /\ UNCHANGED <<last_task, sender, handlers, rx, reply, next_poll,
                   next_task, task_prio, handed, failed, requeued>>

\* loop { match self.listener.try_recv() { ... } }
SchedulerRecv ==
    /\ UNCHANGED rest_vars
    /\ sched_pc = "recv"
    /\ IF listener # <<>> THEN
          LET msg == Head(listener) IN
          /\ listener' = Tail(listener)
          /\ IF msg.type = "PushTask" THEN
                /\ SetQueues(push(Queues, msg.task, msg.priority))
                /\ pushed' = Append(pushed, msg.task.id)
                /\ UNCHANGED tasks_polls
             ELSE
                /\ tasks_polls' = Append(tasks_polls, msg.sender)
                /\ UNCHANGED <<tasks_high, tasks_normal, tasks_low, pushed>>
          /\ UNCHANGED <<sched_pc, tx_alive>>
       ELSE IF handlers = 0 THEN
          \* TryRecvError::Disconnected => return false
          /\ SchedulerDropped
          /\ UNCHANGED <<listener, pushed>>
       ELSE
          \* TryRecvError::Empty => break
          /\ sched_pc' = "serve"
          /\ UNCHANGED <<listener, tasks_high, tasks_normal, tasks_low,
                         tasks_polls, tx_alive, pushed>>
    /\ UNCHANGED <<last_task, sender, handlers, rx, reply, next_poll,
                   next_task, task_prio, handed, failed, requeued>>

\* while let Some(sender) = self.tasks_polls.pop_front() { ... }, up to the
\* send; after the loop, push_front of a task that found no poller.
SchedulerServe ==
    /\ UNCHANGED rest_vars
    /\ sched_pc = "serve"
    /\ IF tasks_polls = <<>> THEN
          /\ IF last_task # <<>>
                THEN /\ SetQueues(push_front(Queues, last_task[1].task, last_task[1].priority))
                     /\ requeued' = requeued \cup {last_task[1].task.id}
                ELSE UNCHANGED <<tasks_high, tasks_normal, tasks_low, requeued>>
          /\ last_task' = <<>>
          /\ sched_pc' = "recv"
          /\ UNCHANGED <<tasks_polls, sender, tx_alive>>
       ELSE
          LET p == Head(tasks_polls)
              polled == IF last_task = <<>> THEN poll(Queues)
                        ELSE [q |-> Queues, got |-> last_task]
          IN
          /\ tasks_polls' = Tail(tasks_polls)
          /\ UNCHANGED requeued
          /\ IF IsDisconnected(p) THEN
                \* continue: the popped Sender is dropped
                /\ tx_alive' = [tx_alive EXCEPT ![p] = FALSE]
                /\ UNCHANGED <<tasks_high, tasks_normal, tasks_low, last_task,
                               sender, sched_pc>>
             ELSE IF polled.got = <<>> THEN
                \* None => return true: the popped Sender is dropped
                /\ tx_alive' = [tx_alive EXCEPT ![p] = FALSE]
                /\ sched_pc' = "recv"
                /\ UNCHANGED <<tasks_high, tasks_normal, tasks_low, last_task, sender>>
             ELSE
                /\ SetQueues(polled.q)
                /\ last_task' = polled.got
                /\ sender' = p
                /\ sched_pc' = "send"
                /\ UNCHANGED tx_alive
    /\ UNCHANGED <<listener, handlers, rx, reply, next_poll,
                   next_task, task_prio, pushed, handed, failed>>

\* if sender.send(task.clone()).is_err() { last_task = Some(..); continue; }
SchedulerSend ==
    /\ UNCHANGED rest_vars
    /\ sched_pc = "send"
    /\ IF IsDisconnected(sender) THEN
          /\ failed' = failed \cup {last_task[1].task.id}
          /\ UNCHANGED <<last_task, reply, handed>>
       ELSE
          /\ reply' = [reply EXCEPT ![sender] = Append(@, last_task[1].task)]
          /\ handed' = Append(handed, [task |-> last_task[1].task.id, poll |-> sender])
          /\ last_task' = <<>>
          /\ UNCHANGED failed
    /\ tx_alive' = [tx_alive EXCEPT ![sender] = FALSE]
    /\ sender' = 0
    /\ sched_pc' = "serve"
    /\ UNCHANGED <<listener, tasks_high, tasks_normal, tasks_low, tasks_polls,
                   handlers, rx, next_poll, next_task, task_prio, pushed, requeued>>

(***************************************************************************)
(* The scheduler with abstract tasks and pollers.                          *)
(***************************************************************************)
InitSched ==
    /\ listener = <<>>
    /\ tasks_high = <<>>
    /\ tasks_normal = <<>>
    /\ tasks_low = <<>>
    /\ tasks_polls = <<>>
    /\ sched_pc = "recv"
    /\ last_task = <<>>
    /\ sender = 0
    /\ handlers = 1
    /\ rx = [p \in PollIds |-> "unused"]
    /\ tx_alive = [p \in PollIds |-> FALSE]
    /\ reply = [p \in PollIds |-> <<>>]
    /\ next_poll = 1
    /\ next_task = 1
    /\ task_prio = <<>>
    /\ pushed = <<>>
    /\ handed = <<>>
    /\ failed = {}
    /\ requeued = {}
    /\ io = <<>>
    /\ header = [page_size |-> 0, flags |-> 0]
    /\ worker_pc = "idle"
    /\ client = [kind |-> "none"]
    /\ wrote = {}
    /\ last = [op |-> "none"]

NextSched ==
    \/ \E priority \in Priorities : HandlerSend(priority)
    \/ HandlerPoll
    \/ \E p \in PollIds : HandlerPollRecv(p)
    \/ \E p \in PollIds : HandlerPollCancel(p)
    \/ HandlerDrop
    \/ SchedulerRecv
    \/ SchedulerServe
    \/ SchedulerSend

SpecSched == InitSched /\ [][NextSched]_vars

(***************************************************************************)
(* The byte container (raw): read, write, append, len.                     *)
(* Offsets are 0-based as in the source; io[k + 1] is the byte at k.       *)
(***************************************************************************)
Max(a, b) == IF a >= b THEN a ELSE b
Min(a, b) == IF a <= b THEN a ELSE b
Zeros(n) == [i \in 1..n |-> 0]

\* read(offset, length): exactly length bytes, zeros past the end.
IoRead(c, offset, length) ==
    [i \in 1..length |-> IF offset + i <= Len(c) THEN c[offset + i] ELSE 0]

\* write(offset, bytes): zero-fills the gap before offset.
IoWrite(c, offset, bytes) ==
    IF bytes = <<>> THEN c
    ELSE [i \in 1..Max(Len(c), offset + Len(bytes)) |->
            IF i > offset /\ i <= offset + Len(bytes) THEN bytes[i - offset]
            ELSE IF i <= Len(c) THEN c[i]
            ELSE 0]

\* append(bytes): seek to the end, write.
IoAppend(c, bytes) == c \o bytes

IoLen(c) == Len(c)

(***************************************************************************)
(* On-disk codecs: little-endian integers, PageHeader, FilesystemHeader.   *)
(***************************************************************************)
RECURSIVE to_le_bytes(_, _)
to_le_bytes(n, width) ==
    IF width = 0 THEN <<>>
    ELSE <<n % 256>> \o to_le_bytes(n \div 256, width - 1)

RECURSIVE from_le_bytes(_)
from_le_bytes(bytes) ==
    IF bytes = <<>> THEN 0
    ELSE Head(bytes) + 256 * from_le_bytes(Tail(bytes))

FLAG_HAS_PREV == 1
FLAG_HAS_NEXT == 2

\* bytes[8] & FLAG == FLAG
HasFlag(byte, flag) == (byte \div flag) % 2 = 1

PageHeaderFromBytes(bytes) ==
    [prev_page_number |-> from_le_bytes(SubSeq(bytes, 1, 4)),
     next_page_number |-> from_le_bytes(SubSeq(bytes, 5, 8)),
     has_prev |-> HasFlag(bytes[9], FLAG_HAS_PREV),
     has_next |-> HasFlag(bytes[9], FLAG_HAS_NEXT)]

PageHeaderToBytes(h) ==
    to_le_bytes(h.prev_page_number, 4) \o to_le_bytes(h.next_page_number, 4)
        \o <<(IF h.has_prev THEN FLAG_HAS_PREV ELSE 0)
              + (IF h.has_next THEN FLAG_HAS_NEXT ELSE 0)>>

\* The 16-bit flag word is kept as a number; only its six low bits are
\* decoded by from_bytes.
FilesystemHeaderFromBytes(bytes) ==
    [page_size |-> from_le_bytes(SubSeq(bytes, 1, 8)),
     flags |-> from_le_bytes(SubSeq(bytes, 9, 10)) % 64]

FilesystemHeaderToBytes(h) ==
    to_le_bytes(h.page_size, 8) \o to_le_bytes(h.flags, 2)

(***************************************************************************)
(* FilesystemWorker::update: the execution of one task on the container.   *)
(* Each operator returns the container after the task, and the reply.      *)
(***************************************************************************)
PageStride(page_size) == PAGE_HEADER_LEN + page_size
PagePos(page_size, page_number) == FS_HEADER_LEN + page_number * PageStride(page_size)
BodyPos(page_size, page_number) == PagePos(page_size, page_number) + PAGE_HEADER_LEN

\* CreatePage that first fills the container up to the start of the page.
ExecCreatePagePadded(c, page_size, parent) ==
    LET page_header == [prev_page_number |-> IF parent = <<>> THEN 0 ELSE parent[1],
                        next_page_number |-> 0,
                        has_prev |-> parent # <<>>,
                        has_next |-> FALSE]
        len == IoLen(c)
        total_pages == (len - FS_HEADER_LEN) \div PageStride(page_size)
        page_number ==
            IF len > FS_HEADER_LEN THEN
                IF total_pages * PageStride(page_size) < len - FS_HEADER_LEN
                    THEN total_pages + 1
                    ELSE total_pages
            ELSE 0
        padded == c \o Zeros(PagePos(page_size, page_number) - len)
    IN  [io |-> IoAppend(IoAppend(padded, PageHeaderToBytes(page_header)), Zeros(page_size)),
         page |-> page_number]

\* parent is <<>> (None) or <<n>> (Some(n)).
ExecCreatePage(c, page_size, parent) ==
    LET page_header == [prev_page_number |-> IF parent = <<>> THEN 0 ELSE parent[1],
                        next_page_number |-> 0,
                        has_prev |-> parent # <<>>,
                        has_next |-> FALSE]
        len == IoLen(c)
        total_pages == (len - FS_HEADER_LEN) \div PageStride(page_size)
        page_number ==
            IF len > FS_HEADER_LEN THEN
                IF total_pages * PageStride(page_size) < len - FS_HEADER_LEN
                    THEN total_pages + 1
                    ELSE total_pages
            ELSE 0
    IN  [io |-> IoAppend(IoAppend(c, PageHeaderToBytes(page_header)), Zeros(page_size)),
         page |-> page_number]

ExecLinkPageForward(c, page_size, page_number, next_page_number) ==
    LET page_pos == PagePos(page_size, page_number)
        page_header == PageHeaderFromBytes(IoRead(c, page_pos, PAGE_HEADER_LEN))
        linked == [page_header EXCEPT !.next_page_number = next_page_number,
                                      !.has_next = TRUE]
    IN  IoWrite(c, page_pos, PageHeaderToBytes(linked))

ExecReadPageHeader(c, page_size, page_number) ==
    PageHeaderFromBytes(IoRead(c, PagePos(page_size, page_number), PAGE_HEADER_LEN))

ExecWritePageHeader(c, page_size, page_number, h) ==
    IoWrite(c, PagePos(page_size, page_number), PageHeaderToBytes(h))

ExecReadPage(c, page_size, page_number, offset, length) ==
    IF offset >= page_size \/ length = 0 THEN <<>>
    ELSE LET page_pos == BodyPos(page_size, page_number) IN
         IF offset + length > page_size
            THEN IoRead(c, page_pos + offset, page_size - offset)
            ELSE IoRead(c, page_pos + offset, length)

\* WritePage that stores all the bytes, past the end of the body too.
ExecWritePageWhole(c, page_size, page_number, offset, bytes) ==
    [io |-> IoWrite(c, BodyPos(page_size, page_number) + offset, bytes),
     replied |-> FALSE, tail |-> <<>>]

\* Returns the container, whether something is sent on the reply channel
\* (when one was given) and the bytes sent.
ExecWritePage(c, page_size, page_number, offset, bytes) ==
    LET len == Len(bytes) IN
    IF offset >= page_size THEN
        [io |-> c, replied |-> TRUE, tail |-> bytes]
    ELSE IF len > 0 THEN
        LET page_pos == BodyPos(page_size, page_number) IN
        IF offset + len > page_size THEN
            LET split == page_size - offset IN
            [io |-> IoWrite(c, page_pos + offset, SubSeq(bytes, 1, split)),
             replied |-> TRUE,
             tail |-> SubSeq(bytes, split + 1, len)]
        ELSE
            [io |-> IoWrite(c, page_pos + offset, bytes), replied |-> FALSE, tail |-> <<>>]
    ELSE [io |-> c, replied |-> FALSE, tail |-> <<>>]

ExecWriteFilesystemHeader(c, h) == IoWrite(c, 0, FilesystemHeaderToBytes(h))

\* The body offsets of a page that a WritePage stores.
StoredOffsets(page_size, offset, bytes) ==
    IF offset >= page_size THEN {}
    ELSE {offset + i - 1 : i \in 1..Min(Len(bytes), page_size - offset)}

(***************************************************************************)
(* Page: the client-side handle.  One client's tasks all go to the Normal  *)
(* queue and are executed in the order sent, so for one client each method *)
(* is the sequence of its tasks' executions.                               *)
(***************************************************************************)
PageReadHeader(c, page_size, page) == ExecReadPageHeader(c, page_size, page)

PageRead(c, page_size, page, offset, length) ==
    ExecReadPage(c, page_size, page, offset, length)

\* write(): response_receiver.recv().unwrap_or_default()
PageWrite(c, page_size, page, offset, bytes) ==
    LET r == ExecWritePage(c, page_size, page, offset, bytes) IN
    [io |-> r.io, tail |-> IF r.replied THEN r.tail ELSE <<>>]

\* create_next_page(): the next page if the header has one, else CreatePage
\* with this page as parent followed by LinkPageForward.
PageCreateNextPage(c, page_size, page) ==
    LET h == PageReadHeader(c, page_size, page) IN
    IF h.has_next THEN [io |-> c, page |-> h.next_page_number, created |-> FALSE]
    ELSE LET made == ExecCreatePage(c, page_size, <<page>>) IN
         [io |-> ExecLinkPageForward(made.io, page_size, page, made.page),
          page |-> made.page, created |-> TRUE]

(***************************************************************************)
(* Book: a chain of pages read and written as one buffer.                  *)
(* book = [entry_page, page_size]; page_size is the worker's page size.    *)
(***************************************************************************)
\* while offset >= self.page_size { page = page.create_next_page(); ... }
RECURSIVE BookLocate(_, _, _, _, _)
BookLocate(c, page_size, book, page, offset) ==
    IF offset >= book.page_size THEN
        LET n == PageCreateNextPage(c, page_size, page) IN
        BookLocate(n.io, page_size, book, n.page, offset - book.page_size)
    ELSE [io |-> c, page |-> page, offset |-> offset]

\* while length > 0 { page = page.create_next_page(); ... buf.extend(new_buf) }
RECURSIVE BookReadRest(_, _, _, _, _)
BookReadRest(c, page_size, page, length, buf) ==
    IF length > 0 THEN
        LET n == PageCreateNextPage(c, page_size, page)
            new_buf == PageRead(n.io, page_size, n.page, 0, length)
        IN  BookReadRest(n.io, page_size, n.page, length - Len(new_buf), buf \o new_buf)
    ELSE [io |-> c, buf |-> buf]

BookRead(c, page_size, book, offset, length) ==
    LET at == BookLocate(c, page_size, book, book.entry_page, offset)
        buf == PageRead(at.io, page_size, at.page, at.offset, length)
    IN  BookReadRest(at.io, page_size, at.page, length - Len(buf), buf)

\* while !tail.is_empty() { page = page.create_next_page(); tail = page.write(0, tail) }
\* stored collects the <<page, offset>> body bytes the write tasks stored.
RECURSIVE BookWriteRest(_, _, _, _, _)
BookWriteRest(c, page_size, page, tail, stored) ==
    IF tail # <<>> THEN
        LET n == PageCreateNextPage(c, page_size, page)
            w == PageWrite(n.io, page_size, n.page, 0, tail)
        IN  BookWriteRest(w.io, page_size, n.page, w.tail,
                stored \cup {<<n.page, o>> : o \in StoredOffsets(page_size, 0, tail)})
    ELSE [io |-> c, stored |-> stored]

BookWrite(c, page_size, book, offset, bytes) ==
    LET at == BookLocate(c, page_size, book, book.entry_page, offset)
        w == PageWrite(at.io, page_size, at.page, at.offset, bytes)
    IN  BookWriteRest(w.io, page_size, at.page, w.tail,
            {<<at.page, o>> : o \in StoredOffsets(page_size, at.offset, bytes)})

(***************************************************************************)
(* One client working on a book (and on pages directly, as the tests do).  *)
(***************************************************************************)
BookPageSizes == {2}
MaxBookOffset == 3
MaxBookLength == 3
MaxBookIoLen == 43

\* The byte strings written: 1, 2, ... so that a misplaced byte shows.
ByteStrings(n) == {[i \in 1..k |-> i] : k \in 0..n}

IdleScheduler ==
    /\ listener = <<>>
    /\ tasks_high = <<>>
    /\ tasks_normal = <<>>
    /\ tasks_low = <<>>
    /\ tasks_polls = <<>>
    /\ sched_pc = "recv"
    /\ last_task = <<>>
    /\ sender = 0
    /\ handlers = 1
    /\ rx = [p \in PollIds |-> "unused"]
    /\ tx_alive = [p \in PollIds |-> FALSE]
    /\ reply = [p \in PollIds |-> <<>>]
    /\ next_poll = 1
    /\ next_task = 1
    /\ task_prio = <<>>
    /\ pushed = <<>>
    /\ handed = <<>>
    /\ failed = {}
    /\ requeued = {}

\* FilesystemDriver::new on an empty container writes the header; the book
\* is opened on page 0, which either was made by a CreatePage or is used
\* without one (Page::new(0, handler), as in the book tests).
InitBook ==
    /\ IdleScheduler
    /\ \E page_size \in BookPageSizes :
        /\ header = [page_size |-> page_size, flags |-> 1]
        /\ client = [kind |-> "book", entry_page |-> 0, page_size |-> page_size]
        /\ \E created \in BOOLEAN :
            io = IF created
                    THEN ExecCreatePage(FilesystemHeaderToBytes(header), page_size, <<>>).io
                    ELSE FilesystemHeaderToBytes(header)
    /\ worker_pc = "idle"
    /\ wrote = {}
    /\ last = [op |-> "none"]

BookWriteStep(offset, bytes) ==
    LET r == BookWrite(io, header.page_size, client, offset, bytes) IN
    /\ Len(r.io) <= MaxBookIoLen
    /\ io' = r.io
    /\ wrote' = wrote \cup r.stored
    /\ last' = [op |-> "write", offset |-> offset, bytes |-> bytes,
                grew |-> Len(r.io) > Len(io)]
    /\ UNCHANGED <<sched_vars, poll_vars, hist_vars, header, worker_pc, client>>

\* after is <<bytes>> when this read follows a write of the same range.
BookReadStep(offset, length) ==
    LET r == BookRead(io, header.page_size, client, offset, length) IN
    /\ Len(r.io) <= MaxBookIoLen
    /\ io' = r.io
    /\ last' = [op |-> "read", offset |-> offset, length |-> length, buf |-> r.buf,
                after |-> IF last.op = "write" /\ last.offset = offset
                                /\ Len(last.bytes) = length
                             THEN <<last.bytes>> ELSE <<>>,
                grew |-> last.op = "write" /\ last.grew]
    /\ UNCHANGED <<sched_vars, poll_vars, hist_vars, header, worker_pc, client, wrote>>

\* Page::write on the entry page, as the book tests do.
PageWriteStep(offset, bytes) ==
    LET r == PageWrite(io, header.page_size, client.entry_page, offset, bytes) IN
    /\ io' = r.io
    /\ wrote' = wrote \cup {<<client.entry_page, o>> :
                                o \in StoredOffsets(header.page_size, offset, bytes)}
    /\ last' = [op |-> "page_write"]
    /\ UNCHANGED <<sched_vars, poll_vars, hist_vars, header, worker_pc, client>>

NextBook ==
    \/ \E offset \in 0..MaxBookOffset, bytes \in ByteStrings(MaxBookLength) :
            BookWriteStep(offset, bytes)
    \/ \E offset \in 0..MaxBookOffset, length \in 0..MaxBookLength :
            BookReadStep(offset, length)
    \/ \E offset \in 0..2, bytes \in ByteStrings(1) : PageWriteStep(offset, bytes)

SpecBook == InitBook /\ [][NextBook]_vars

(***************************************************************************)
(* The whole pipeline: handlers of two clients, the daemonized scheduler   *)
(* and the daemonized worker thread that polls a task and executes it.     *)
(***************************************************************************)
MaxOtherTasks == 1
PipePageSize == 2
PipePage == 1

\* The reply channel of the worker's poll; a new poll is made only after
\* the previous channel is used up, so one name serves for all of them.
WorkerPollId == 1

\* update(): the match on the polled task.  sent is <<>> or <<value>>, what
\* goes to the task's response_sender.
WorkerUpdate(c, h, task) ==
    CASE task.kind = "ReadFilesystemHeader" ->
            [io |-> c, header |-> h, sent |-> <<h>>]
      [] task.kind = "WriteFilesystemHeader" ->
            [io |-> ExecWriteFilesystemHeader(c, task.header),
             header |-> task.header, sent |-> <<>>]
      [] task.kind = "CreatePage" ->
            LET r == ExecCreatePage(c, h.page_size, task.parent_page_number) IN
            [io |-> r.io, header |-> h, sent |-> <<r.page>>]
      [] task.kind = "LinkPageForward" ->
            [io |-> ExecLinkPageForward(c, h.page_size, task.page_number,
                                        task.next_page_number),
             header |-> h, sent |-> <<>>]
      [] task.kind = "ReadPageHeader" ->
            [io |-> c, header |-> h,
             sent |-> <<ExecReadPageHeader(c, h.page_size, task.page_number)>>]
      [] task.kind = "WritePageHeader" ->
            [io |-> ExecWritePageHeader(c, h.page_size, task.page_number, task.header),
             header |-> h, sent |-> <<>>]
      [] task.kind = "ReadPage" ->
            [io |-> c, header |-> h,
             sent |-> <<ExecReadPage(c, h.page_size, task.page_number,
                                     task.offset, task.length)>>]
      [] task.kind = "WritePage" ->
            LET r == ExecWritePage(c, h.page_size, task.page_number,
                                   task.offset, task.bytes) IN
            [io |-> r.io, header |-> h,
             sent |-> IF r.replied /\ task.wants_tail THEN <<r.tail>> ELSE <<>>]

\* self.handler.poll()?, first half.
WorkerPoll ==
    /\ worker_pc = "idle"
    /\ listener' = Append(listener, [type |-> "PollTask", sender |-> WorkerPollId])
    /\ rx' = [rx EXCEPT ![WorkerPollId] = "waiting"]
    /\ tx_alive' = [tx_alive EXCEPT ![WorkerPollId] = TRUE]
    /\ worker_pc' = "polling"
    /\ UNCHANGED <<tasks_high, tasks_normal, tasks_low, tasks_polls, sched_pc,
                   last_task, sender, handlers, reply, next_poll, hist_vars,
                   io, header, client_vars>>

\* response_sender.send(..): the reply reaches the client that made the task.
\* A client inside Page::write also sees the sender of its WritePage dropped
\* without a reply, which recv().unwrap_or_default() turns into no tail.
SendReply(cl, task, sent) ==
    IF cl.kind = "share" /\ task.kind = "WritePage" THEN
        [cl EXCEPT !.inbox[task.from] = <<IF sent = <<>> THEN <<>> ELSE sent[1]>>]
    ELSE IF sent = <<>> THEN cl
    ELSE IF cl.kind \in {"links", "share"} THEN [cl EXCEPT !.inbox[task.from] = sent]
    ELSE IF task.from = "A" THEN [cl EXCEPT !.reply = sent]
    ELSE cl

\* self.handler.poll()?, second half, and the execution of the task; a
\* failed poll makes daemonize() panic, which drops the worker, its
\* container and its handler.
WorkerExecute ==
    /\ worker_pc = "polling"
    /\ IF reply[WorkerPollId] # <<>> THEN
          LET task == reply[WorkerPollId][1]
              r == WorkerUpdate(io, header, task)
          IN
          /\ rx' = [rx EXCEPT ![WorkerPollId] = "received"]
          /\ reply' = [reply EXCEPT ![WorkerPollId] = <<>>]
          /\ io' = r.io
          /\ header' = r.header
          /\ client' = SendReply(client, task, r.sent)
          /\ worker_pc' = "idle"
          /\ UNCHANGED handlers
       ELSE
          /\ ~tx_alive[WorkerPollId]
          /\ rx' = [rx EXCEPT ![WorkerPollId] = "failed"]
          /\ worker_pc' = "dead"
          /\ handlers' = handlers - 1
          /\ UNCHANGED <<reply, io, header, client>>
    /\ UNCHANGED <<listener, tasks_high, tasks_normal, tasks_low, tasks_polls,
                   sched_pc, last_task, sender, tx_alive, next_poll, hist_vars,
                   wrote, last>>

\* handler.send(task, priority) of a client of the pipeline.
ClientSend(task, priority) ==
    /\ listener' = Append(listener,
            [type |-> "PushTask", task |-> task, priority |-> priority])
    /\ task_prio' = Append(task_prio, priority)
    /\ next_task' = next_task + 1
    /\ UNCHANGED <<tasks_high, tasks_normal, tasks_low, tasks_polls, sched_pc,
                   last_task, sender, handlers, poll_vars, pushed, handed,
                   failed, requeued, store_vars, wrote, last>>

\* Client A: WritePage(p, off, bytes) without a reply channel ...
ClientWritePage(priority, offset, bytes) ==
    /\ client.pc = "start"
    /\ offset + Len(bytes) <= header.page_size
    /\ ClientSend([id |-> next_task, from |-> "A", kind |-> "WritePage",
                   page_number |-> PipePage, offset |-> offset, bytes |-> bytes,
                   wants_tail |-> FALSE], priority)
    /\ client' = [client EXCEPT !.pc = "written", !.priority = priority,
                                !.offset = offset, !.bytes = bytes,
                                !.write_id = next_task]

\* ... then ReadPage(p, off, len(bytes)) with the same priority ...
ClientReadPage ==
    /\ client.pc = "written"
    /\ ClientSend([id |-> next_task, from |-> "A", kind |-> "ReadPage",
                   page_number |-> PipePage, offset |-> client.offset,
                   length |-> Len(client.bytes)], client.priority)
    /\ client' = [client EXCEPT !.pc = "reading", !.read_id = next_task]

\* ... and response_receiver.recv().
ClientRecv ==
    /\ client.pc = "reading"
    /\ client.reply # <<>>
    /\ client' = [client EXCEPT !.pc = "done"]
    /\ last' = [op |-> "read_page", buf |-> client.reply[1]]
    /\ UNCHANGED <<sched_vars, poll_vars, hist_vars, store_vars, wrote>>

\* What the other clients send: tasks on the pages next to PipePage whose
\* effect reaches up to the borders of PipePage's body, and CreatePage.
OtherTasks ==
    {[kind |-> "WritePage", page_number |-> PipePage - 1, offset |-> 1,
      bytes |-> <<7, 7, 7>>, wants_tail |-> FALSE],
     [kind |-> "WritePageHeader", page_number |-> PipePage + 1,
      header |-> [prev_page_number |-> 3, next_page_number |-> 3,
                  has_prev |-> TRUE, has_next |-> TRUE]],
     [kind |-> "CreatePage", parent_page_number |-> <<PipePage>>]}

OtherSend(task, priority) ==
    /\ client.others < MaxOtherTasks
    /\ ClientSend([id |-> next_task, from |-> "B"] @@ task, priority)
    /\ client' = [client EXCEPT !.others = @ + 1]

\* The container after n CreatePage tasks.
RECURSIVE CreatedPages(_, _, _)
CreatedPages(c, page_size, n) ==
    IF n = 0 THEN c
    ELSE CreatedPages(ExecCreatePage(c, page_size, <<>>).io, page_size, n - 1)

\* A filesystem with no page or with three pages; three handler clones:
\* the worker's and the two clients'.
InitPipe ==
    /\ listener = <<>>
    /\ tasks_high = <<>>
    /\ tasks_normal = <<>>
    /\ tasks_low = <<>>
    /\ tasks_polls = <<>>
    /\ sched_pc = "recv"
    /\ last_task = <<>>
    /\ sender = 0
    /\ handlers = 3
    /\ rx = [p \in PollIds |-> "unused"]
    /\ tx_alive = [p \in PollIds |-> FALSE]
    /\ reply = [p \in PollIds |-> <<>>]
    /\ next_poll = 1
    /\ next_task = 1
    /\ task_prio = <<>>
    /\ pushed = <<>>
    /\ handed = <<>>
    /\ failed = {}
    /\ requeued = {}
    /\ header = [page_size |-> PipePageSize, flags |-> 1]
    /\ \E pages \in {0, 3} :
            io = CreatedPages(FilesystemHeaderToBytes(header), PipePageSize, pages)
    /\ worker_pc = "idle"
    /\ client = [kind |-> "pipe", pc |-> "start", priority |-> "Normal",
                 offset |-> 0, bytes |-> <<>>, write_id |-> 0, read_id |-> 0,
                 reply |-> <<>>, others |-> 0]
    /\ wrote = {}
    /\ last = [op |-> "none"]

NextPipe ==
    \/ \E priority \in Priorities, offset \in 0..(PipePageSize - 1),
          bytes \in ByteStrings(PipePageSize) \ {<<>>} :
            ClientWritePage(priority, offset, bytes)
    \/ ClientReadPage
    \/ ClientRecv
    \/ \E task \in OtherTasks, priority \in Priorities : OtherSend(task, priority)
    \/ WorkerPoll
    \/ WorkerExecute
    \/ SchedulerRecv
    \/ SchedulerServe
    \/ SchedulerSend

SpecPipe == InitPipe /\ [][NextPipe]_vars

(***************************************************************************)
(* GenericBTreeRecord: the record codec.  Option values are <<>> (None) or *)
(* <<x>> (Some(x)); keys and values are byte arrays.                       *)
(***************************************************************************)
\* The sizes of keys and values, the const parameters of the tree.
KEY_SIZE == 1
VALUE_SIZE == 1

FLAG_LEFT_ADDR_SET == 8
FLAG_KEY_SET == 2
FLAG_VALUE_SET == 4
FLAG_RIGHT_ADDR_SET == 1

RECORD_SIZE == KEY_SIZE + VALUE_SIZE + 9
\* The stride of the slots; its definition is not part of the record
\* source at hand, the documented value is used.
RECORD_SHIFT == RECORD_SIZE - 4

LEFT_ADDR_OFFSET == 0
FLAG_OFFSET == LEFT_ADDR_OFFSET + 4
KEY_OFFSET == FLAG_OFFSET + 1
VALUE_OFFSET == KEY_OFFSET + KEY_SIZE
RIGHT_ADDR_OFFSET == VALUE_OFFSET + VALUE_SIZE

RECURSIVE to_be_bytes(_, _)
to_be_bytes(n, width) ==
    IF width = 0 THEN <<>>
    ELSE to_be_bytes(n \div 256, width - 1) \o <<n % 256>>

RECURSIVE from_be_bytes(_)
from_be_bytes(bytes) ==
    IF bytes = <<>> THEN 0
    ELSE 256 * from_be_bytes(SubSeq(bytes, 1, Len(bytes) - 1)) + bytes[Len(bytes)]

\* bytes[a..b]
Slice(bytes, a, b) == SubSeq(bytes, a + 1, b)

\* A copy_from_slice that takes slices of any two lengths.
CopyNeverPanics(dst_len, src_len) == FALSE

\* dst.copy_from_slice(src) panics unless the lengths are equal.
CopyPanics(dst_len, src_len) == dst_len # src_len

\* A comparison that finds no key greater than another.
KeyNeverGreater(a, b) == FALSE

\* record_key > key on byte arrays of one length.
RECURSIVE KeyGreater(_, _)
KeyGreater(a, b) ==
    IF a = <<>> THEN FALSE
    ELSE IF a[1] # b[1] THEN a[1] > b[1]
    ELSE KeyGreater(Tail(a), Tail(b))

\* A new record that loses its key.
RecordNoKey(key, value) ==
    [key |-> <<>>, value |-> <<value>>, left_addr |-> <<>>, right_addr |-> <<>>]

RecordNew(key, value) ==
    [key |-> <<key>>, value |-> <<value>>, left_addr |-> <<>>, right_addr |-> <<>>]

\* from_bytes: "none" when the bytes are too short, "panic" when a
\* copy_from_slice panics, else the record and the remaining bytes.
RecordFromBytes(bytes) ==
    IF Len(bytes) < RECORD_SIZE THEN [kind |-> "none"]
    ELSE
        LET flags == bytes[FLAG_OFFSET + 1]
            raw_left_addr == Slice(bytes, LEFT_ADDR_OFFSET, KEY_OFFSET)
        IN
        IF HasFlag(flags, FLAG_LEFT_ADDR_SET) /\ CopyPanics(4, Len(raw_left_addr))
        THEN [kind |-> "panic"]
        ELSE
            [kind |-> "some",
             record |->
                [key |-> IF HasFlag(flags, FLAG_KEY_SET)
                            THEN <<Slice(bytes, KEY_OFFSET, VALUE_OFFSET)>> ELSE <<>>,
                 value |-> IF HasFlag(flags, FLAG_VALUE_SET)
                            THEN <<Slice(bytes, VALUE_OFFSET, RIGHT_ADDR_OFFSET)>> ELSE <<>>,
                 left_addr |-> IF HasFlag(flags, FLAG_LEFT_ADDR_SET)
                            THEN <<from_be_bytes(raw_left_addr)>> ELSE <<>>,
                 right_addr |-> IF HasFlag(flags, FLAG_RIGHT_ADDR_SET)
                            THEN <<from_be_bytes(Slice(bytes, RIGHT_ADDR_OFFSET, RECORD_SIZE))>>
                            ELSE <<>>],
             remaining |-> Slice(bytes, RECORD_SIZE - 4, Len(bytes))]

\* to_bytes: panics when the 4 bytes of left_addr are copied into
\* record[LEFT_ADDR_OFFSET..KEY_OFFSET].
RecordToBytes(record) ==
    IF record.left_addr # <<>> /\ CopyPanics(KEY_OFFSET - LEFT_ADDR_OFFSET, 4)
    THEN [panic |-> TRUE, bytes |-> <<>>]
    ELSE
        [panic |-> FALSE,
         bytes |->
            [n \in 1..RECORD_SIZE |->
                LET i == n - 1 IN
                IF i = FLAG_OFFSET THEN
                    (IF record.key # <<>> THEN FLAG_KEY_SET ELSE 0)
                    + (IF record.value # <<>> THEN FLAG_VALUE_SET ELSE 0)
                    + (IF record.left_addr # <<>> THEN FLAG_LEFT_ADDR_SET ELSE 0)
                    + (IF record.right_addr # <<>> THEN FLAG_RIGHT_ADDR_SET ELSE 0)
                ELSE IF i >= KEY_OFFSET /\ i < VALUE_OFFSET /\ record.key # <<>>
                    THEN record.key[1][i - KEY_OFFSET + 1]
                ELSE IF i >= VALUE_OFFSET /\ i < RIGHT_ADDR_OFFSET /\ record.value # <<>>
                    THEN record.value[1][i - VALUE_OFFSET + 1]
                ELSE IF i >= RIGHT_ADDR_OFFSET /\ record.right_addr # <<>>
                    THEN to_be_bytes(record.right_addr[1], 4)[i - RIGHT_ADDR_OFFSET + 1]
                ELSE IF i < FLAG_OFFSET /\ record.left_addr # <<>>
                    THEN to_be_bytes(record.left_addr[1], 4)[i - LEFT_ADDR_OFFSET + 1]
                ELSE 0]]

(***************************************************************************)
(* u64 arithmetic.  A u64 is its 8 little-endian bytes, so that the full   *)
(* width is kept; an operation returns the wrapped value and whether it    *)
(* overflowed.  A build with overflow checks panics on overflow, a build   *)
(* without them goes on with the wrapped value.                            *)
(***************************************************************************)
Builds == {"checked", "wrapping"}

U64(n) == to_le_bytes(n, 8)

\* The u64 2^64 - 1 - n, for a small n.
U64FromMax(n) == [i \in 1..8 |-> IF i = 1 THEN 255 - n ELSE 255]

RECURSIVE AddBytes(_, _, _)
AddBytes(a, b, carry) ==
    IF a = <<>> THEN [value |-> <<>>, overflow |-> carry = 1]
    ELSE LET sum == a[1] + b[1] + carry
             rest == AddBytes(Tail(a), Tail(b), sum \div 256)
         IN  [value |-> <<sum % 256>> \o rest.value, overflow |-> rest.overflow]

\* a + b
U64Add(a, b) == AddBytes(a, b, 0)

RECURSIVE SubBytes(_, _, _)
SubBytes(a, b, borrow) ==
    IF a = <<>> THEN [value |-> <<>>, overflow |-> borrow = 1]
    ELSE LET diff == a[1] - b[1] - borrow
             rest == SubBytes(Tail(a), Tail(b), IF diff < 0 THEN 1 ELSE 0)
         IN  [value |-> <<diff % 256>> \o rest.value, overflow |-> rest.overflow]

\* a - b
U64Sub(a, b) == SubBytes(a, b, 0)

RECURSIVE MulBytes(_, _, _)
MulBytes(a, m, carry) ==
    IF a = <<>> THEN [value |-> <<>>, overflow |-> carry > 0]
    ELSE LET prod == a[1] * m + carry
             rest == MulBytes(Tail(a), m, prod \div 256)
         IN  [value |-> <<prod % 256>> \o rest.value, overflow |-> rest.overflow]

\* a * m for a small m
U64Mul(a, m) == MulBytes(a, m, 0)

\* a / d for a small d > 0: long division from the highest byte down.
RECURSIVE DivBytes(_, _)
DivBytes(a, d) ==
    IF a = <<>> THEN [value |-> <<>>, rem |-> 0]
    ELSE LET high == DivBytes(Tail(a), d)
             num == high.rem * 256 + a[1]
         IN  [value |-> <<num \div d>> \o high.value, rem |-> num % d]

U64Div(a, d) == DivBytes(a, d).value

\* a < b
RECURSIVE U64Less(_, _)
U64Less(a, b) ==
    IF a = <<>> THEN FALSE
    ELSE IF a[Len(a)] # b[Len(b)] THEN a[Len(a)] < b[Len(b)]
    ELSE U64Less(SubSeq(a, 1, Len(a) - 1), SubSeq(b, 1, Len(b) - 1))

U64LessEq(a, b) == a = b \/ U64Less(a, b)

(***************************************************************************)
(* GenericBTree: max_records and insert.  tree = [entry_page, page_size].  *)
(* The tasks of one insert are executed in the order sent.                 *)
(***************************************************************************)
\* max_records on the u64 page_size: [panic, value].  The product and the
\* sum of the test and the subtraction can overflow.
MaxRecords(build, page_size) ==
    LET pages == U64Div(page_size, RECORD_SHIFT)
        product == U64Mul(pages, RECORD_SHIFT)
        sum == U64Add(product.value, U64(RECORD_SIZE - RECORD_SHIFT))
        less == U64Sub(pages, U64(1))
    IN
    IF build = "checked" /\ (product.overflow \/ sum.overflow) THEN
        [panic |-> TRUE, value |-> U64(0)]
    ELSE IF U64LessEq(sum.value, page_size) THEN
        [panic |-> FALSE, value |-> pages]
    ELSE IF build = "checked" /\ less.overflow THEN
        [panic |-> TRUE, value |-> U64(0)]
    ELSE [panic |-> FALSE, value |-> less.value]

\* max_records as a number, for the page sizes of the trees of the model.
max_records(page_size) ==
    from_le_bytes(MaxRecords("wrapping", U64(page_size)).value)

\* record.value = Some(value) that leaves the value as it was.
RecordKeepValue(record, value) == record

\* record.value = Some(value)
RecordSetValue(record, value) == [record EXCEPT !.value = <<value>>]

\* A method's statements in sequence: Rest applied to the value of first.
Then(first, Rest(_)) == CHOOSE result \in {Rest(value) : value \in {first}} : TRUE

\* while let Some((record, remaining)) = from_bytes(page) { ... }
\* outcome: "return", "panic", "jump" (break with jump_to_page) or "end";
\* written is <<i>> when a record was written at offset i of curr_page.
RECURSIVE ScanRecords(_, _, _, _, _, _, _, _)
ScanRecords(c, page_size, curr_page, page, i, prev_record, key, value) ==
    LET parsed == RecordFromBytes(page) IN
    IF parsed.kind = "none" THEN
        [io |-> c, outcome |-> "end", curr_page |-> curr_page, prev_record |-> prev_record,
         written |-> <<>>]
    ELSE IF parsed.kind = "panic" THEN
        [io |-> c, outcome |-> "panic", curr_page |-> curr_page, prev_record |-> prev_record,
         written |-> <<>>]
    ELSE
        LET record == parsed.record IN
        IF record.key = <<>> THEN
            LET bytes == RecordToBytes(RecordNew(key, value)).bytes IN
            [io |-> ExecWritePage(c, page_size, curr_page, i, bytes).io,
             outcome |-> "return", curr_page |-> curr_page, prev_record |-> prev_record,
             written |-> <<i>>]
        ELSE IF record.key[1] = key THEN
            LET written == RecordToBytes(RecordSetValue(record, value)) IN
            IF written.panic THEN
                [io |-> c, outcome |-> "panic", curr_page |-> curr_page,
                 prev_record |-> prev_record, written |-> <<>>]
            ELSE
                [io |-> ExecWritePage(c, page_size, curr_page, i, written.bytes).io,
                 outcome |-> "return", curr_page |-> curr_page, prev_record |-> prev_record,
                 written |-> <<i>>]
        ELSE IF KeyGreater(record.key[1], key) THEN
            IF record.left_addr # <<>> THEN
                [io |-> c, outcome |-> "jump", curr_page |-> record.left_addr[1],
                 prev_record |-> prev_record, written |-> <<>>]
            ELSE
                LET made == ExecCreatePage(c, page_size, <<>>)
                    written == RecordToBytes([record EXCEPT !.left_addr = <<made.page>>])
                IN
                IF written.panic THEN
                    [io |-> made.io, outcome |-> "panic", curr_page |-> curr_page,
                     prev_record |-> prev_record, written |-> <<>>]
                ELSE
                    [io |-> ExecWritePage(made.io, page_size, curr_page, i, written.bytes).io,
                     outcome |-> "jump", curr_page |-> made.page,
                     prev_record |-> prev_record, written |-> <<i>>]
        ELSE
            ScanRecords(c, page_size, curr_page, parsed.remaining, i + RECORD_SHIFT,
                        <<[i |-> i, record |-> record]>>, key, value)

\* The pages of the container, as the tree tests count them.
TreePages(c, page_size) == (Len(c) - FS_HEADER_LEN) \div (PAGE_HEADER_LEN + page_size)

\* One pass of loop { ... } of insert over the page that ReadPage returned,
\* its tasks executed on the container c.  outcome: "ok" (return), "panic"
\* or "again" (the next pass reads curr_page); written as in ScanRecords.
InsertPass(c, page_size, tree, curr_page, page, key, value) ==
    LET Pass(io2, outcome, page2, written) ==
            [io |-> io2, outcome |-> outcome, curr_page |-> page2, written |-> written]
    IN
    Then(ScanRecords(c, page_size, curr_page, page, 0, <<>>, key, value), LAMBDA scan :
    IF scan.outcome = "return" THEN Pass(scan.io, "ok", curr_page, scan.written)
    ELSE IF scan.outcome = "panic" THEN Pass(scan.io, "panic", curr_page, <<>>)
    ELSE IF scan.outcome = "jump" THEN Pass(scan.io, "again", scan.curr_page, scan.written)
    ELSE IF scan.prev_record # <<>> THEN
        LET i == scan.prev_record[1].i
            record == scan.prev_record[1].record
        IN
        IF record.right_addr # <<>> THEN Pass(c, "again", record.right_addr[1], <<>>)
        ELSE IF i + RECORD_SHIFT + RECORD_SHIFT <= tree.page_size THEN
            LET bytes == RecordToBytes(RecordNew(key, value)).bytes IN
            Pass(ExecWritePage(c, page_size, curr_page, i + RECORD_SHIFT, bytes).io,
                 "again", curr_page, <<i + RECORD_SHIFT>>)
        ELSE
            LET made == ExecCreatePage(c, page_size, <<>>)
                written == RecordToBytes([record EXCEPT !.right_addr = <<made.page>>])
            IN
            IF written.panic THEN Pass(made.io, "panic", curr_page, <<>>)
            ELSE Pass(ExecWritePage(made.io, page_size, curr_page, i, written.bytes).io,
                      "again", made.page, <<i>>)
    ELSE
        LET bytes == RecordToBytes(RecordNew(key, value)).bytes IN
        Pass(ExecWritePage(c, page_size, curr_page, 0, bytes).io, "ok", curr_page, <<0>>))

\* loop { ... } of insert.  outcome: "ok" (return), "panic", or "hangs"
\* when a pass ends where it began (same page, same container) or when the
\* passes outnumber the pages, which a walk down the tree cannot do.
RECURSIVE InsertLoop(_, _, _, _, _, _, _)
InsertLoop(c, page_size, tree, curr_page, key, value, passes) ==
    Then(InsertPass(c, page_size, tree, curr_page,
                    ExecReadPage(c, page_size, curr_page, 0, tree.page_size),
                    key, value), LAMBDA pass :
    IF pass.outcome # "again" THEN [io |-> pass.io, outcome |-> pass.outcome]
    ELSE IF (pass.io = c /\ pass.curr_page = curr_page)
            \/ passes > TreePages(pass.io, page_size) + 1
        THEN [io |-> pass.io, outcome |-> "hangs"]
    ELSE InsertLoop(pass.io, page_size, tree, pass.curr_page, key, value, passes + 1))

BTreeInsert(c, page_size, tree, key, value) ==
    InsertLoop(c, page_size, tree, tree.entry_page, key, value, 1)

(***************************************************************************)
(* One client inserting into a tree whose entry page was just created.     *)
(***************************************************************************)
MaxKey == 2
MaxInserts == 4

\* Page sizes that hold one or two records, with and without spare bytes
\* after the last one.
TreePageSizes ==
    {RECORD_SIZE, 2 * RECORD_SHIFT, RECORD_SIZE + RECORD_SHIFT, 3 * RECORD_SHIFT}

InitTree ==
    /\ IdleScheduler
    /\ \E page_size \in TreePageSizes :
        /\ header = [page_size |-> page_size, flags |-> 1]
        /\ io = CreatedPages(FilesystemHeaderToBytes(header), page_size, 1)
        /\ client = [kind |-> "tree", entry_page |-> 0, page_size |-> page_size,
                     state |-> "ready", keys |-> <<>>]
    /\ worker_pc = "idle"
    /\ wrote = {}
    /\ last = [op |-> "none"]

\* btree.insert(&k.to_be_bytes(), value): the n-th insert stores the value n.
TreeInsert(k) ==
    /\ client.state = "ready"
    /\ Len(client.keys) < MaxInserts
    /\ LET key == to_be_bytes(k, KEY_SIZE)
           value == to_be_bytes(Len(client.keys) + 1, VALUE_SIZE)
           r == BTreeInsert(io, header.page_size, client, key, value)
       IN
       /\ io' = r.io
       /\ client' = [client EXCEPT !.keys = Append(@, k),
                        !.state = IF r.outcome = "ok" THEN "ready" ELSE r.outcome]
       /\ last' = [op |-> "insert", key |-> key, value |-> value,
                   pages_before |-> TreePages(io, header.page_size),
                   prev |-> IF last.op = "insert"
                               THEN <<[key |-> last.key, value |-> last.value]>>
                               ELSE <<>>]
    /\ UNCHANGED <<sched_vars, poll_vars, hist_vars, header, worker_pc, wrote>>

NextTree == \E k \in 0..MaxKey : TreeInsert(k)

SpecTree == InitTree /\ [][NextTree]_vars

(***************************************************************************)
(* The worker alone: it executes, one after another, whatever tasks the    *)
(* scheduler hands it.                                                     *)
(***************************************************************************)
MaxWorkerSteps == 4
WorkerPageSize == 2
\* A page size whose stride is twice the stride of WorkerPageSize.
WiderPageSize == 2 * WorkerPageSize + PAGE_HEADER_LEN

WorkerPages == {0, 1}

WorkerTasks ==
    {[kind |-> "CreatePage", parent_page_number |-> parent] : parent \in {<<>>, <<0>>}}
    \cup {[kind |-> "WritePage", page_number |-> p, offset |-> o, bytes |-> b,
           wants_tail |-> TRUE] :
            p \in WorkerPages, o \in 0..WorkerPageSize,
            b \in {<<1>>, [i \in 1..(WorkerPageSize + 1) |-> i]}}
    \cup {[kind |-> "ReadPage", page_number |-> p, offset |-> o, length |-> l] :
            p \in WorkerPages, o \in {0, 1}, l \in {1, WorkerPageSize + 1}}
    \cup {[kind |-> "ReadPageHeader", page_number |-> p] : p \in WorkerPages}
    \cup {[kind |-> "WritePageHeader", page_number |-> p,
           header |-> [prev_page_number |-> 3, next_page_number |-> 3,
                       has_prev |-> TRUE, has_next |-> TRUE]] : p \in WorkerPages}
    \cup {[kind |-> "LinkPageForward", page_number |-> p, next_page_number |-> 1 - p] :
            p \in WorkerPages}
    \cup {[kind |-> "ReadFilesystemHeader"]}
    \cup {[kind |-> "WriteFilesystemHeader", header |-> h] :
            h \in {[page_size |-> WorkerPageSize, flags |-> 38],
                   [page_size |-> WiderPageSize, flags |-> 1]}}

\* FilesystemDriver::new writes the header of a new container;
\* FilesystemWorker::new reads the cache from the container.
InitWorker ==
    /\ IdleScheduler
    /\ io = FilesystemHeaderToBytes([page_size |-> WorkerPageSize, flags |-> 1])
    /\ header = FilesystemHeaderFromBytes(IoRead(io, 0, FS_HEADER_LEN))
    /\ worker_pc = "idle"
    /\ client = [kind |-> "worker", steps |-> 0, created |-> <<>>,
                 written |-> <<header>>]
    /\ wrote = {}
    /\ last = [op |-> "none"]

\* One update(): the task is executed, its reply sent.  created is the
\* history of the page numbers replied by CreatePage, written the header
\* of the last WriteFilesystemHeader (at first the one read by new).
WorkerStep(task) ==
    /\ client.steps < MaxWorkerSteps
    /\ LET r == WorkerUpdate(io, header, task) IN
       /\ io' = r.io
       /\ header' = r.header
       /\ client' = [client EXCEPT
                        !.steps = @ + 1,
                        !.created = IF task.kind = "CreatePage"
                                        THEN Append(@, r.sent[1]) ELSE @,
                        !.written = IF task.kind = "WriteFilesystemHeader"
                                        THEN <<task.header>> ELSE @]
       /\ last' = [op |-> "task", task |-> task, sent |-> r.sent,
                   io_before |-> io, page_size |-> header.page_size]
    /\ UNCHANGED <<sched_vars, poll_vars, hist_vars, worker_pc, wrote>>

NextWorker == \E task \in WorkerTasks : WorkerStep(task)

SpecWorker == InitWorker /\ [][NextWorker]_vars

(***************************************************************************)
(* One client working on pages: it writes bodies and asks for next pages.  *)
(***************************************************************************)
MaxPageNumber == 2
MaxPagesIoLen == 43
PagesPageSize == 2

\* A new filesystem, with or without a first page made by CreatePage.
InitPages ==
    /\ IdleScheduler
    /\ header = [page_size |-> PagesPageSize, flags |-> 1]
    /\ \E pages \in {0, 1} :
            io = CreatedPages(FilesystemHeaderToBytes(header), PagesPageSize, pages)
    /\ worker_pc = "idle"
    /\ client = [kind |-> "pages"]
    /\ wrote = {}
    /\ last = [op |-> "none"]

\* Page::new(page, handler).create_next_page(); again is <<q>> when the
\* call before this one was create_next_page on the same page and gave q.
CreateNextPageStep(page) ==
    LET r == PageCreateNextPage(io, header.page_size, page) IN
    /\ Len(r.io) <= MaxPagesIoLen
    /\ io' = r.io
    /\ last' = [op |-> "create_next_page", page |-> page, next |-> r.page,
                io_before |-> io,
                again |-> IF last.op = "create_next_page" /\ last.page = page
                            THEN <<last.next>> ELSE <<>>]
    /\ UNCHANGED <<sched_vars, poll_vars, hist_vars, header, worker_pc, client, wrote>>

\* Page::new(page, handler).write(offset, bytes)
WritePageStep(page, offset, bytes) ==
    LET r == PageWrite(io, header.page_size, page, offset, bytes) IN
    /\ Len(r.io) <= MaxPagesIoLen
    /\ io' = r.io
    /\ last' = [op |-> "page_write"]
    /\ UNCHANGED <<sched_vars, poll_vars, hist_vars, header, worker_pc, client, wrote>>

NextPages ==
    \/ \E page \in 0..MaxPageNumber : CreateNextPageStep(page)
    \/ \E page \in 0..MaxPageNumber, offset \in 0..(PagesPageSize - 1),
          bytes \in ByteStrings(1) \ {<<>>} : WritePageStep(page, offset, bytes)

SpecPages == InitPages /\ [][NextPages]_vars

(***************************************************************************)
(* Clients that call create_next_page at the same time, each a thread with *)
(* its own clone of the handler, over the scheduler and the worker.        *)
(***************************************************************************)
MaxCalls == 1
LinkPageSize == 2
LinkClients == {"A", "B"}
LinkPage == 0

\* A filesystem with the page LinkPage made by CreatePage; three handler
\* clones: the worker's and the two clients'.
InitLinks ==
    /\ IdleScheduler
    /\ header = [page_size |-> LinkPageSize, flags |-> 1]
    /\ io = CreatedPages(FilesystemHeaderToBytes(header), LinkPageSize, LinkPage + 1)
    /\ worker_pc = "idle"
    /\ client = [kind |-> "links",
                 pc |-> [c \in LinkClients |-> "idle"],
                 inbox |-> [c \in LinkClients |-> <<>>],
                 calls |-> [c \in LinkClients |-> 0]]
    /\ wrote = {}
    /\ last = [op |-> "none"]

\* create_next_page(): read_next_page() sends ReadPageHeader and waits.
LinkReadHeader(c) ==
    /\ client.pc[c] = "idle"
    /\ client.calls[c] < MaxCalls
    /\ ClientSend([id |-> next_task, from |-> c, kind |-> "ReadPageHeader",
                   page_number |-> LinkPage], "Normal")
    /\ client' = [client EXCEPT !.pc[c] = "reading", !.calls[c] = @ + 1]

\* create_next_page(): the header has a next page, which is returned.
LinkReturnNext(c) ==
    /\ client.pc[c] = "reading"
    /\ client.inbox[c] # <<>>
    /\ client.inbox[c][1].has_next
    /\ client' = [client EXCEPT !.pc[c] = "idle", !.inbox[c] = <<>>]
    /\ UNCHANGED <<sched_vars, poll_vars, hist_vars, store_vars, wrote, last>>

\* create_next_page(): the header has no next page; CreatePage is sent
\* and its reply waited for.
LinkCreatePage(c) ==
    /\ client.pc[c] = "reading"
    /\ client.inbox[c] # <<>>
    /\ ~client.inbox[c][1].has_next
    /\ ClientSend([id |-> next_task, from |-> c, kind |-> "CreatePage",
                   parent_page_number |-> <<LinkPage>>], "Normal")
    /\ client' = [client EXCEPT !.pc[c] = "creating", !.inbox[c] = <<>>]

\* create_next_page(): LinkPageForward is sent, the new page returned.
LinkForward(c) ==
    /\ client.pc[c] = "creating"
    /\ client.inbox[c] # <<>>
    /\ ClientSend([id |-> next_task, from |-> c, kind |-> "LinkPageForward",
                   page_number |-> LinkPage,
                   next_page_number |-> client.inbox[c][1]], "Normal")
    /\ client' = [client EXCEPT !.pc[c] = "idle", !.inbox[c] = <<>>]

NextLinks ==
    \/ \E c \in LinkClients : LinkReadHeader(c)
    \/ \E c \in LinkClients : LinkReturnNext(c)
    \/ \E c \in LinkClients : LinkCreatePage(c)
    \/ \E c \in LinkClients : LinkForward(c)
    \/ WorkerPoll
    \/ WorkerExecute
    \/ SchedulerRecv
    \/ SchedulerServe
    \/ SchedulerSend

SpecLinks == InitLinks /\ [][NextLinks]_vars

(***************************************************************************)
(* The arithmetic of the tree and of the worker on u64 arguments from both *)
(* ends of the range, in a build with and in a build without overflow      *)
(* checks.                                                                 *)
(***************************************************************************)
MaxSmall == 30

U64Samples == {U64(n) : n \in 0..MaxSmall} \cup {U64FromMax(n) : n \in 0..MaxSmall}

InitCalc ==
    /\ IdleScheduler
    /\ io = <<>>
    /\ header = [page_size |-> 0, flags |-> 0]
    /\ worker_pc = "idle"
    /\ \E build \in Builds : client = [kind |-> "calc", build |-> build]
    /\ wrote = {}
    /\ last = [op |-> "none"]

\* btree.max_records() of a tree with the given page size.
CalcMaxRecords(page_size) ==
    /\ last' = [op |-> "max_records", page_size |-> page_size,
                result |-> MaxRecords(client.build, page_size)]
    /\ UNCHANGED <<sched_vars, poll_vars, hist_vars, store_vars, client, wrote>>

\* The ReadPage arm of update() on u64 arguments: whether the worker panics
\* and the number of bytes it replies.  vec![0; n] panics for n above
\* isize::MAX.
ReadPageLength(build, page_size, page_number, offset, length) ==
    IF ~U64Less(offset, page_size) \/ length = U64(0) THEN
        [panic |-> FALSE, replied |-> U64(0)]
    ELSE
        LET stride == U64Add(U64(PAGE_HEADER_LEN), page_size)
            pages == U64Mul(stride.value, page_number)
            page_start == U64Add(U64(FS_HEADER_LEN), pages.value)
            page_pos == U64Add(page_start.value, U64(PAGE_HEADER_LEN))
            end == U64Add(offset, length)
            position == U64Add(page_pos.value, offset)
            replied == IF U64Less(page_size, end.value)
                          THEN U64Sub(page_size, offset).value
                          ELSE length
        IN
        IF build = "checked" /\ (stride.overflow \/ pages.overflow \/ page_start.overflow
                                    \/ page_pos.overflow \/ end.overflow
                                    \/ position.overflow)
            THEN [panic |-> TRUE, replied |-> U64(0)]
        ELSE IF replied[8] >= 128 THEN [panic |-> TRUE, replied |-> U64(0)]
        ELSE [panic |-> FALSE, replied |-> replied]

MaxEdge == 3

U64Edges == {U64(n) : n \in 0..MaxEdge} \cup {U64FromMax(n) : n \in 0..MaxEdge}

\* A ReadPage task executed by a worker whose header has the given page size.
CalcReadPage(page_size, page_number, offset, length) ==
    /\ last' = [op |-> "read_page", page_size |-> page_size, offset |-> offset,
                length |-> length,
                result |-> ReadPageLength(client.build, page_size, page_number,
                                          offset, length)]
    /\ UNCHANGED <<sched_vars, poll_vars, hist_vars, store_vars, client, wrote>>

NextCalc ==
    \/ \E page_size \in U64Samples : CalcMaxRecords(page_size)
    \/ \E page_size \in U64Edges, page_number \in {0, 1}, offset \in U64Edges,
          length \in U64Edges : CalcReadPage(page_size, page_number, offset, length)

SpecCalc == InitCalc /\ [][NextCalc]_vars

(***************************************************************************)
(* The worker with a header whose page_size is any u64: the header tasks   *)
(* and the page header tasks, with page_pos computed on the 8 bytes.       *)
(* Here header.page_size is the u64 as its little-endian bytes.            *)
(***************************************************************************)
MaxWideSteps == 3
MaxWidePage == 2
MaxWideShift == 2

\* FilesystemHeader::from_bytes and to_bytes, page_size kept as bytes.
WideHeaderFromBytes(bytes) ==
    [page_size |-> SubSeq(bytes, 1, 8),
     flags |-> from_le_bytes(SubSeq(bytes, 9, 10)) % 64]

WideHeaderToBytes(h) == h.page_size \o to_le_bytes(h.flags, 2)

\* A u64 that is below 2^16.
IsSmall(v) == \A i \in 3..8 : v[i] = 0

\* FilesystemHeader::LENGTH + page_number * (PageHeader::LENGTH + page_size)
\* on u64: [panic, value].  A build with overflow checks panics where the
\* other one wraps.
WidePagePos(build, page_size, page_number) ==
    LET stride == U64Add(U64(PAGE_HEADER_LEN), page_size)
        pages == U64Mul(stride.value, page_number)
        pos == U64Add(U64(FS_HEADER_LEN), pages.value)
    IN  [panic |-> build = "checked"
                    /\ (stride.overflow \/ pages.overflow \/ pos.overflow),
         value |-> pos.value]

\* io.write(page_pos, bytes): the seek to an offset above i64::MAX fails,
\* which panics.
WideWrite(c, pos, bytes) ==
    IF IsSmall(pos) THEN [panic |-> FALSE, io |-> IoWrite(c, from_le_bytes(pos), bytes)]
    ELSE [panic |-> TRUE, io |-> c]

\* io.read(page_pos, length): zeros when the seek fails.
WideRead(c, pos, length) ==
    IF IsSmall(pos) THEN IoRead(c, from_le_bytes(pos), length) ELSE Zeros(length)

\* update() on one task: the container, the cached header, the reply, and
\* whether the worker panicked.
WideUpdate(build, c, h, task) ==
    CASE task.kind = "ReadFilesystemHeader" ->
            [io |-> c, header |-> h, sent |-> <<h>>, panic |-> FALSE]
      [] task.kind = "WriteFilesystemHeader" ->
            [io |-> IoWrite(c, 0, WideHeaderToBytes(task.header)),
             header |-> task.header, sent |-> <<>>, panic |-> FALSE]
      [] task.kind = "LinkPageForward" ->
            LET page_pos == WidePagePos(build, h.page_size, task.page_number)
                page_header == PageHeaderFromBytes(
                                    WideRead(c, page_pos.value, PAGE_HEADER_LEN))
                linked == [page_header EXCEPT
                                !.next_page_number = task.next_page_number,
                                !.has_next = TRUE]
                written == WideWrite(c, page_pos.value, PageHeaderToBytes(linked))
            IN  IF page_pos.panic THEN [io |-> c, header |-> h, sent |-> <<>>,
                                        panic |-> TRUE]
                ELSE [io |-> written.io, header |-> h, sent |-> <<>>,
                      panic |-> written.panic]
      [] task.kind = "ReadPageHeader" ->
            LET page_pos == WidePagePos(build, h.page_size, task.page_number) IN
            IF page_pos.panic THEN [io |-> c, header |-> h, sent |-> <<>>,
                                    panic |-> TRUE]
            ELSE [io |-> c, header |-> h, panic |-> FALSE,
                  sent |-> <<PageHeaderFromBytes(
                                WideRead(c, page_pos.value, PAGE_HEADER_LEN))>>]
      [] task.kind = "WritePageHeader" ->
            LET page_pos == WidePagePos(build, h.page_size, task.page_number)
                written == WideWrite(c, page_pos.value, PageHeaderToBytes(task.header))
            IN  IF page_pos.panic THEN [io |-> c, header |-> h, sent |-> <<>>,
                                        panic |-> TRUE]
                ELSE [io |-> written.io, header |-> h, sent |-> <<>>,
                      panic |-> written.panic]

\* Page sizes from both ends of the u64: a small one, and 2^64 - 9 - k, for
\* which PageHeader::LENGTH + page_size is 2^64 - k.
WidePageSizes == {U64(WorkerPageSize)} \cup {U64FromMax(8 + k) : k \in 1..MaxWideShift}

WideTasks ==
    [kind : {"ReadFilesystemHeader"}]
    \cup [kind : {"WriteFilesystemHeader"},
          header : [page_size : WidePageSizes, flags : {1, 38}]]
    \cup [kind : {"ReadPageHeader"}, page_number : 0..MaxWidePage]
    \cup [kind : {"LinkPageForward"}, page_number : 0..MaxWidePage,
          next_page_number : {1}]
    \cup [kind : {"WritePageHeader"}, page_number : 0..MaxWidePage,
          header : {[prev_page_number |-> 3, next_page_number |-> 0,
                     has_prev |-> TRUE, has_next |-> FALSE]}]

\* FilesystemDriver::new on an empty container, FilesystemWorker::new.
InitWide ==
    /\ IdleScheduler
    /\ io = WideHeaderToBytes([page_size |-> U64(WorkerPageSize), flags |-> 1])
    /\ header = WideHeaderFromBytes(IoRead(io, 0, FS_HEADER_LEN))
    /\ worker_pc = "idle"
    /\ \E build \in Builds :
            client = [kind |-> "wide", build |-> build, steps |-> 0,
                      written |-> <<header>>]
    /\ wrote = {}
    /\ last = [op |-> "none"]

\* One update(); a panic ends the worker's thread.  written is the header
\* of the last WriteFilesystemHeader (at first the one read by new),
\* io_before the container the task found.
WideStep(task) ==
    /\ worker_pc = "idle"
    /\ client.steps < MaxWideSteps
    /\ LET r == WideUpdate(client.build, io, header, task) IN
       /\ io' = r.io
       /\ header' = r.header
       /\ worker_pc' = IF r.panic THEN "dead" ELSE "idle"
       /\ client' = [client EXCEPT
                        !.steps = @ + 1,
                        !.written = IF task.kind = "WriteFilesystemHeader"
                                        THEN <<task.header>> ELSE @]
       /\ last' = [op |-> "task", task |-> task, sent |-> r.sent,
                   panic |-> r.panic, io_before |-> io]
    /\ UNCHANGED <<sched_vars, poll_vars, hist_vars, wrote>>

NextWide == \E task \in WideTasks : WideStep(task)

SpecWide == InitWide /\ [][NextWide]_vars

(***************************************************************************)
(* Two threads write through clones of one Book, over the scheduler and    *)
(* the worker.  Each thread is inside Book::write: pc is its place in the  *)
(* method, page / offset / tail are the method's local variables.          *)
(***************************************************************************)
SharePageSize == 2
MaxShareOffset == 3
MaxShareLength == 2

\* The byte ranges [offset, offset + Len(bytes)) of two writes are disjoint.
Disjoint(a, b) ==
    \/ a.offset + Len(a.bytes) <= b.offset
    \/ b.offset + Len(b.bytes) <= a.offset

\* A filesystem with page 0 made by CreatePage; Book::open(Page::new(0)),
\* cloned for the two threads, each with its bytes to write.
InitShare ==
    /\ IdleScheduler
    /\ header = [page_size |-> SharePageSize, flags |-> 1]
    /\ io = CreatedPages(FilesystemHeaderToBytes(header), SharePageSize, 1)
    /\ worker_pc = "idle"
    /\ \E oa \in 0..MaxShareOffset, ob \in 0..MaxShareOffset,
          la \in 1..MaxShareLength :
        LET ranges == [c \in LinkClients |->
                        IF c = "A" THEN [offset |-> oa, bytes |-> [i \in 1..la |-> 5]]
                                   ELSE [offset |-> ob, bytes |-> <<6>>]]
        IN  /\ Disjoint(ranges["A"], ranges["B"])
            /\ client = [kind |-> "share",
                         book |-> [entry_page |-> 0, page_size |-> SharePageSize],
                         range |-> ranges,
                         pc |-> [c \in LinkClients |-> "locate"],
                         phase |-> [c \in LinkClients |-> "locate"],
                         page |-> [c \in LinkClients |-> 0],
                         offset |-> [c \in LinkClients |-> ranges[c].offset],
                         tail |-> [c \in LinkClients |-> ranges[c].bytes],
                         inbox |-> [c \in LinkClients |-> <<>>]]
    /\ wrote = {}
    /\ last = [op |-> "none"]

\* while offset >= self.page_size { page = page.create_next_page(); .. }:
\* the loop test is true; create_next_page starts with read_header.
ShareLocateNext(c) ==
    /\ client.pc[c] = "locate"
    /\ client.offset[c] >= client.book.page_size
    /\ ClientSend([id |-> next_task, from |-> c, kind |-> "ReadPageHeader",
                   page_number |-> client.page[c]], "Normal")
    /\ client' = [client EXCEPT !.pc[c] = "reading"]

\* let mut tail = page.write(offset, bytes): the WritePage is sent.
ShareWriteFirst(c) ==
    /\ client.pc[c] = "locate"
    /\ client.offset[c] < client.book.page_size
    /\ ClientSend([id |-> next_task, from |-> c, kind |-> "WritePage",
                   page_number |-> client.page[c], offset |-> client.offset[c],
                   bytes |-> client.tail[c], wants_tail |-> TRUE], "Normal")
    /\ client' = [client EXCEPT !.pc[c] = "writing"]

\* The place after create_next_page has returned.
AfterNextPage(cl, c, page) ==
    IF cl.phase[c] = "locate"
        THEN [cl EXCEPT !.pc[c] = "locate", !.page[c] = page, !.inbox[c] = <<>>,
                        !.offset[c] = @ - cl.book.page_size]
        ELSE [cl EXCEPT !.pc[c] = "rest", !.page[c] = page, !.inbox[c] = <<>>]

\* create_next_page(): the header has a next page, which is returned.
ShareReturnNext(c) ==
    /\ client.pc[c] = "reading"
    /\ client.inbox[c] # <<>>
    /\ client.inbox[c][1].has_next
    /\ client' = AfterNextPage(client, c, client.inbox[c][1].next_page_number)
    /\ UNCHANGED <<sched_vars, poll_vars, hist_vars, store_vars, wrote, last>>

\* create_next_page(): no next page; CreatePage is sent, its reply awaited.
ShareCreatePage(c) ==
    /\ client.pc[c] = "reading"
    /\ client.inbox[c] # <<>>
    /\ ~client.inbox[c][1].has_next
    /\ ClientSend([id |-> next_task, from |-> c, kind |-> "CreatePage",
                   parent_page_number |-> <<client.page[c]>>], "Normal")
    /\ client' = [client EXCEPT !.pc[c] = "creating", !.inbox[c] = <<>>]

\* create_next_page(): LinkPageForward is sent, the new page returned.
ShareForward(c) ==
    /\ client.pc[c] = "creating"
    /\ client.inbox[c] # <<>>
    /\ ClientSend([id |-> next_task, from |-> c, kind |-> "LinkPageForward",
                   page_number |-> client.page[c],
                   next_page_number |-> client.inbox[c][1]], "Normal")
    /\ client' = AfterNextPage(client, c, client.inbox[c][1])

\* page.write() has returned the tail: the method ends when it is empty,
\* else while !tail.is_empty() { page = page.create_next_page(); .. }
ShareWritten(c) ==
    /\ client.pc[c] = "writing"
    /\ client.inbox[c] # <<>>
    /\ IF client.inbox[c][1] = <<>> THEN
          /\ client' = [client EXCEPT !.pc[c] = "done", !.tail[c] = <<>>,
                                      !.inbox[c] = <<>>]
          /\ UNCHANGED <<sched_vars, poll_vars, hist_vars, store_vars, wrote, last>>
       ELSE
          /\ ClientSend([id |-> next_task, from |-> c, kind |-> "ReadPageHeader",
                         page_number |-> client.page[c]], "Normal")
          /\ client' = [client EXCEPT !.pc[c] = "reading", !.phase[c] = "rest",
                                      !.tail[c] = client.inbox[c][1],
                                      !.inbox[c] = <<>>]

\* tail = page.write(0, tail): the WritePage is sent.
ShareWriteRest(c) ==
    /\ client.pc[c] = "rest"
    /\ ClientSend([id |-> next_task, from |-> c, kind |-> "WritePage",
                   page_number |-> client.page[c], offset |-> 0,
                   bytes |-> client.tail[c], wants_tail |-> TRUE], "Normal")
    /\ client' = [client EXCEPT !.pc[c] = "writing"]

NextShare ==
    \/ \E c \in LinkClients : ShareLocateNext(c)
    \/ \E c \in LinkClients : ShareWriteFirst(c)
    \/ \E c \in LinkClients : ShareReturnNext(c)
    \/ \E c \in LinkClients : ShareCreatePage(c)
    \/ \E c \in LinkClients : ShareForward(c)
    \/ \E c \in LinkClients : ShareWritten(c)
    \/ \E c \in LinkClients : ShareWriteRest(c)
    \/ WorkerPoll
    \/ WorkerExecute
    \/ SchedulerRecv
    \/ SchedulerServe
    \/ SchedulerSend

SpecShare == InitShare /\ [][NextShare]_vars

(***************************************************************************)
(* One client that sends a Low-priority WritePage and then a High-priority *)
(* ReadPage of the same range, over the scheduler and the worker.          *)
(***************************************************************************)
PrioPageSize == 2
PrioPage == 1

\* A filesystem with no page or with three pages; before is the content of
\* the range when the WritePage is sent.
InitPrio ==
    /\ IdleScheduler
    /\ header = [page_size |-> PrioPageSize, flags |-> 1]
    /\ \E pages \in {0, 3} :
            io = CreatedPages(FilesystemHeaderToBytes(header), PrioPageSize, pages)
    /\ worker_pc = "idle"
    /\ client = [kind |-> "pipe", pc |-> "start", offset |-> 0, bytes |-> <<>>,
                 before |-> <<>>, write_id |-> 0, read_id |-> 0, reply |-> <<>>]
    /\ wrote = {}
    /\ last = [op |-> "none"]

\* handler.send_low(WritePage { page_number, offset, bytes, None })
PrioWritePage(offset, bytes) ==
    /\ client.pc = "start"
    /\ offset + Len(bytes) <= header.page_size
    /\ ClientSend([id |-> next_task, from |-> "A", kind |-> "WritePage",
                   page_number |-> PrioPage, offset |-> offset, bytes |-> bytes,
                   wants_tail |-> FALSE], "Low")
    /\ client' = [client EXCEPT
                    !.pc = "written", !.offset = offset, !.bytes = bytes,
                    !.before = ExecReadPage(io, header.page_size, PrioPage,
                                            offset, Len(bytes)),
                    !.write_id = next_task]

\* handler.send_high(ReadPage { page_number, offset, length, response_sender })
PrioReadPage ==
    /\ client.pc = "written"
    /\ ClientSend([id |-> next_task, from |-> "A", kind |-> "ReadPage",
                   page_number |-> PrioPage, offset |-> client.offset,
                   length |-> Len(client.bytes)], "High")
    /\ client' = [client EXCEPT !.pc = "reading", !.read_id = next_task]

NextPrio ==
    \/ \E offset \in 0..(PrioPageSize - 1),
          bytes \in ByteStrings(PrioPageSize) \ {<<>>} : PrioWritePage(offset, bytes)
    \/ PrioReadPage
    \/ ClientRecv
    \/ WorkerPoll
    \/ WorkerExecute
    \/ SchedulerRecv
    \/ SchedulerServe
    \/ SchedulerSend

SpecPrio == InitPrio /\ [][NextPrio]_vars

(***************************************************************************)
(* The worker and reply channels whose receiver the client has dropped.    *)
(***************************************************************************)
MaxDropSteps == 3

\* The tasks that carry a response_sender.
HasChannel(task) ==
    task.kind \in {"ReadFilesystemHeader", "CreatePage", "ReadPageHeader",
                   "ReadPage", "WritePage"}

\* response_sender.send(..)?, which makes update() return the error.
RespondChecked(alive, sent) ==
    [delivered |-> alive /\ sent # <<>>, error |-> ~alive /\ sent # <<>>]

\* let _ = response_sender.send(..): the result of the send is discarded.
Respond(alive, sent) ==
    [delivered |-> alive /\ sent # <<>>, error |-> FALSE]

InitDrop ==
    /\ IdleScheduler
    /\ io = FilesystemHeaderToBytes([page_size |-> WorkerPageSize, flags |-> 1])
    /\ header = FilesystemHeaderFromBytes(IoRead(io, 0, FS_HEADER_LEN))
    /\ worker_pc = "idle"
    /\ client = [kind |-> "drop", steps |-> 0, dropped |-> {}]
    /\ wrote = {}
    /\ last = [op |-> "none"]

\* One update() of the daemonized worker on a task whose receiver is alive
\* or was dropped before; an error returned by update() panics the thread.
\* dropped is the set of the kinds of the tasks executed with a dropped
\* receiver.
DropStep(task, alive) ==
    /\ worker_pc = "idle"
    /\ client.steps < MaxDropSteps
    /\ HasChannel(task) \/ alive
    /\ LET r == WorkerUpdate(io, header, task)
           res == Respond(alive, r.sent)
       IN
       /\ io' = r.io
       /\ header' = r.header
       /\ worker_pc' = IF res.error THEN "dead" ELSE "idle"
       /\ client' = [client EXCEPT !.steps = @ + 1,
                                   !.dropped = IF alive THEN @
                                                ELSE @ \cup {task.kind}]
       /\ last' = [op |-> "task", task |-> task, alive |-> alive,
                   delivered |-> res.delivered, io_before |-> io,
                   page_size |-> header.page_size, after_dropped |-> client.dropped]
    /\ UNCHANGED <<sched_vars, poll_vars, hist_vars, wrote>>

NextDrop == \E task \in WorkerTasks, alive \in BOOLEAN : DropStep(task, alive)

SpecDrop == InitDrop /\ [][NextDrop]_vars

(***************************************************************************)
(* The daemonized scheduler and the handler clones: the worker's and the   *)
(* clients'.  The scheduler thread keeps running its loop.                 *)
(***************************************************************************)
MaxHandlers == 2
MaxStopTasks == 1
MaxStopPolls == 2

InitStop ==
    /\ IdleScheduler
    /\ io = <<>>
    /\ header = [page_size |-> 0, flags |-> 0]
    /\ worker_pc = "idle"
    /\ client = [kind |-> "none"]
    /\ wrote = {}
    /\ last = [op |-> "none"]

\* handler.clone()
HandlerClone ==
    /\ UNCHANGED rest_vars
    /\ handlers > 0
    /\ handlers < MaxHandlers
    /\ handlers' = handlers + 1
    /\ UNCHANGED <<listener, tasks_high, tasks_normal, tasks_low, tasks_polls,
                   sched_pc, last_task, sender, poll_vars, hist_vars>>

NextStop ==
    \/ \E priority \in Priorities : next_task <= MaxStopTasks /\ HandlerSend(priority)
    \/ next_poll <= MaxStopPolls /\ HandlerPoll
    \/ \E p \in PollIds : HandlerPollRecv(p)
    \/ \E p \in PollIds : HandlerPollCancel(p)
    \/ HandlerClone
    \/ HandlerDrop
    \/ SchedulerRecv
    \/ SchedulerServe
    \/ SchedulerSend

\* The thread of daemonize() is scheduled again and again.
SpecStop ==
    /\ InitStop
    /\ [][NextStop]_vars
    /\ WF_vars(SchedulerRecv)
    /\ WF_vars(SchedulerServe)
    /\ WF_vars(SchedulerSend)

(***************************************************************************)
(* FilesystemWorker::update with the scheduler in its own thread           *)
(* (daemonized) or pumped from update() itself, which then is              *)
(* scheduler.update() followed by self.handler.poll().                     *)
(***************************************************************************)
MaxPumpTasks == 2
PumpPageSize == 2

PumpTasks ==
    {[kind |-> "CreatePage", parent_page_number |-> <<>>],
     [kind |-> "ReadFilesystemHeader"]}

\* FilesystemDriver::new, and then daemonize() or not.
InitPump ==
    /\ IdleScheduler
    /\ header = [page_size |-> PumpPageSize, flags |-> 1]
    /\ io = FilesystemHeaderToBytes(header)
    /\ worker_pc = "idle"
    /\ \E mode \in {"daemon", "pumped"} :
            client = [kind |-> "pump", mode |-> mode, reply |-> <<>>]
    /\ wrote = {}
    /\ last = [op |-> "none"]

\* driver.handler().send(..) by the thread that owns the driver: in the
\* pumped mode that thread is not inside update() at the same time.
PumpSend(task, priority) ==
    /\ next_task <= MaxPumpTasks
    /\ client.mode = "pumped" => worker_pc = "idle"
    /\ ClientSend([id |-> next_task, from |-> "A"] @@ task, priority)
    /\ UNCHANGED client

\* update() is called on the worker that still owns its scheduler, after a
\* task was enqueued: if let Some(scheduler) = self.scheduler.as_mut()
PumpUpdate ==
    /\ client.mode = "pumped"
    /\ worker_pc = "idle"
    /\ next_task > 1
    /\ worker_pc' = "pumping"
    /\ UNCHANGED <<sched_vars, poll_vars, hist_vars, io, header, client_vars>>

\* try_recv of scheduler.update(), in its thread or inside the worker's update().
PumpRuns == client.mode = "daemon" \/ worker_pc = "pumping"

\* The worker is the only poller, so inside its update() the scheduler finds
\* no poll to serve: while let Some(sender) = self.tasks_polls.pop_front()
\* ends at once, scheduler.update() returns true, and self.handler.poll()?
\* sends its PollTask and waits in recv().
PumpPoll ==
    /\ worker_pc = "pumping"
    /\ sched_pc = "serve"
    /\ tasks_polls = <<>>
    /\ last_task = <<>>
    /\ sched_pc' = "recv"
    /\ listener' = Append(listener, [type |-> "PollTask", sender |-> WorkerPollId])
    /\ rx' = [rx EXCEPT ![WorkerPollId] = "waiting"]
    /\ tx_alive' = [tx_alive EXCEPT ![WorkerPollId] = TRUE]
    /\ worker_pc' = "polling"
    /\ UNCHANGED <<tasks_high, tasks_normal, tasks_low, tasks_polls,
                   last_task, sender, handlers, reply, next_poll, hist_vars,
                   io, header, client_vars>>

NextPump ==
    \/ \E task \in PumpTasks, priority \in Priorities : PumpSend(task, priority)
    \/ PumpUpdate
    \/ PumpPoll
    \/ client.mode = "daemon" /\ WorkerPoll
    \/ WorkerExecute
    \/ PumpRuns /\ SchedulerRecv
    \/ client.mode = "daemon" /\ SchedulerServe
    \/ client.mode = "daemon" /\ SchedulerSend

\* Every thread keeps running.
SpecPump ==
    /\ InitPump
    /\ [][NextPump]_vars
    /\ WF_vars(PumpPoll)
    /\ WF_vars(WorkerExecute)
    /\ WF_vars(PumpRuns /\ SchedulerRecv)
    /\ WF_vars(client.mode = "daemon" /\ SchedulerServe)
    /\ WF_vars(client.mode = "daemon" /\ SchedulerSend)

(***************************************************************************)
(* BufStorageIO: the first size bytes of a container kept in memory.  The  *)
(* same operations go to a raw container (io) and to a BufStorageIO        *)
(* (client) that wraps a container with the same first content.            *)
(***************************************************************************)
MaxBufSize == 3
MaxBufOffset == 3
MaxBufBytes == 3
MaxBufInit == 2
MaxBufSteps == 3

\* The bytes written: k times the byte b, as in tests::test_write_buf.
BufByteStrings == {[i \in 1..k |-> b] : k \in 0..MaxBufBytes, b \in 1..2}

\* BufStorageIO::new: Vec::with_capacity(size) has length 0, so
\* buf[..len] panics unless len is 0.
BufNew(c, size) ==
    IF Len(c) >= size
        THEN [io |-> c, buf |-> IoRead(c, 0, size), size |-> size, panic |-> FALSE]
        ELSE [io |-> c, buf |-> <<>>, size |-> size, panic |-> Len(c) > 0]

\* BufStorageIO::read
BufRead(b, offset, length) ==
    LET n == Len(b.buf)
        end == offset + length
    IN IF offset < n THEN
            IF n >= end THEN Slice(b.buf, offset, end)
            ELSE Slice(b.buf, offset, n) \o IoRead(b.io, n, end - n)
       ELSE IoRead(b.io, offset, length)

\* dst[offset..end] = src, lengths equal.
BufCopy(dst, offset, end, src) ==
    [i \in 1..Len(dst) |-> IF i > offset /\ i <= end THEN src[i - offset] ELSE dst[i]]

\* BufStorageIO::write, the part before T::write: the new buffer, or a panic
\* of the slice &bytes[k..self.size].
BufWriteBuf(b, offset, bytes) ==
    LET n0 == Len(b.buf)
        m == Len(bytes)
        end == offset + m
    IN IF offset >= b.size THEN [buf |-> b.buf, panic |-> FALSE]
       ELSE IF n0 >= end THEN [buf |-> BufCopy(b.buf, offset, end, bytes), panic |-> FALSE]
       ELSE
            LET filled == IF offset > n0 THEN b.buf \o Zeros(offset - n0) ELSE b.buf
                n == IF offset > n0 THEN offset ELSE n0
                k == n - offset
                copied == IF n > offset
                            THEN BufCopy(filled, offset, n, Slice(bytes, 0, k))
                            ELSE filled
            IN IF b.size > n THEN
                    IF end <= b.size
                        THEN [buf |-> copied \o Slice(bytes, k, m), panic |-> FALSE]
                    ELSE IF k > b.size \/ b.size > m
                        THEN [buf |-> copied, panic |-> TRUE]
                    ELSE [buf |-> copied \o Slice(bytes, k, b.size), panic |-> FALSE]
               ELSE [buf |-> copied, panic |-> FALSE]

BufWrite(b, offset, bytes) ==
    LET w == BufWriteBuf(b, offset, bytes) IN
    IF w.panic THEN [b EXCEPT !.buf = w.buf, !.panic = TRUE]
    ELSE [b EXCEPT !.buf = w.buf, !.io = IoWrite(b.io, offset, bytes)]

\* BufStorageIO::append
BufAppend(b, bytes) ==
    LET n == Len(b.buf)
        m == Len(bytes)
        k == b.size - n
        buf == IF n < b.size
                THEN IF k > m THEN b.buf \o bytes ELSE b.buf \o Slice(bytes, 0, k)
                ELSE b.buf
    IN [b EXCEPT !.buf = buf, !.io = IoAppend(b.io, bytes)]

\* BufStorageIO::len
BufLen(b) == IF b.size # 0 /\ b.buf = <<>> THEN 0 ELSE IoLen(b.io)

\* tests::with_io, over a container that may already hold bytes.
InitBuf ==
    /\ IdleScheduler
    /\ header = [page_size |-> 0, flags |-> 0]
    /\ worker_pc = "idle"
    /\ \E k \in 0..MaxBufInit, size \in 0..MaxBufSize :
        /\ io = [i \in 1..k |-> 9]
        /\ client = [kind |-> "buf", steps |-> 0, wrapped |-> BufNew(io, size)]
    /\ wrote = {}
    /\ last = [op |-> "new"]

\* file.write(offset, &bytes); buf.write(offset, bytes);
BufWriteStep(offset, bytes) ==
    /\ client.steps < MaxBufSteps
    /\ ~client.wrapped.panic
    /\ io' = IoWrite(io, offset, bytes)
    /\ client' = [client EXCEPT !.steps = @ + 1,
                                !.wrapped = BufWrite(@, offset, bytes)]
    /\ last' = [op |-> "write", offset |-> offset, bytes |-> bytes]
    /\ UNCHANGED <<sched_vars, poll_vars, hist_vars, header, worker_pc, wrote>>

\* file.append(&bytes); buf.append(bytes);
BufAppendStep(bytes) ==
    /\ client.steps < MaxBufSteps
    /\ ~client.wrapped.panic
    /\ io' = IoAppend(io, bytes)
    /\ client' = [client EXCEPT !.steps = @ + 1,
                                !.wrapped = BufAppend(@, bytes)]
    /\ last' = [op |-> "append", bytes |-> bytes]
    /\ UNCHANGED <<sched_vars, poll_vars, hist_vars, header, worker_pc, wrote>>

NextBuf ==
    \/ \E offset \in 0..MaxBufOffset, bytes \in BufByteStrings : BufWriteStep(offset, bytes)
    \/ \E bytes \in BufByteStrings : BufAppendStep(bytes)

SpecBuf == InitBuf /\ [][NextBuf]_vars

(***************************************************************************)
(* FilesystemTree: entries of 32 bytes in a book, linked by the book       *)
(* offsets of the first child and of the next sibling.                     *)
(* tree = [book, last_entry_addr]; reader = [offset, buf_offset, buf].     *)
(***************************************************************************)
ENTRY_LENGTH == 32
ROOT_OFFSET == 8
MaxChildren == 3
MaxEntryName == 2
MaxEntryInode == 1

EntryPageSizes == {64, 160}
EntryBufSizes == {32, 64}

\* FilesystemEntry::new
EntryNew(name, inode) ==
    [name |-> name, inode |-> inode, sibling_addr |-> 0, child_addr |-> 0]

\* FilesystemEntry::is_empty: (name | sibling_addr | child_addr) == 0
EntryIsEmpty(entry) ==
    entry.name = 0 /\ entry.sibling_addr = 0 /\ entry.child_addr = 0

EntryFromBytes(bytes) ==
    [name |-> from_be_bytes(Slice(bytes, 0, 8)),
     inode |-> from_be_bytes(Slice(bytes, 8, 16)),
     sibling_addr |-> from_be_bytes(Slice(bytes, 16, 24)),
     child_addr |-> from_be_bytes(Slice(bytes, 24, 32))]

EntryToBytes(entry) ==
    to_be_bytes(entry.name, 8) \o to_be_bytes(entry.inode, 8)
        \o to_be_bytes(entry.sibling_addr, 8) \o to_be_bytes(entry.child_addr, 8)

\* FilesystemTree::reader
TreeReader(offset) == [offset |-> offset, buf_offset |-> 0, buf |-> <<>>]

\* FilesystemTreeReader::next in the Sibling mode: item is <<>> for None.
ReaderNext(c, page_size, book, buf_size, reader) ==
    LET refill == \/ reader.buf = <<>>
                  \/ /\ reader.offset > reader.buf_offset
                     /\ reader.offset - reader.buf_offset > buf_size - ENTRY_LENGTH
                  \/ reader.buf_offset > reader.offset
        buf_offset == IF refill THEN reader.offset ELSE reader.buf_offset
        i == reader.offset - buf_offset
    IN  Then(IF refill THEN BookRead(c, page_size, book, reader.offset, buf_size)
             ELSE [io |-> c, buf |-> reader.buf],
        LAMBDA got :
        Then(EntryFromBytes(Slice(got.buf, i, i + ENTRY_LENGTH)),
        LAMBDA entry :
            LET here == [reader EXCEPT !.buf_offset = buf_offset, !.buf = got.buf] IN
            IF EntryIsEmpty(entry) THEN [io |-> got.io, reader |-> here, item |-> <<>>]
            ELSE IF entry.sibling_addr # 0 THEN
                [io |-> got.io, reader |-> [here EXCEPT !.offset = entry.sibling_addr],
                 item |-> <<[offset |-> reader.offset, entry |-> entry]>>]
            ELSE [io |-> got.io, reader |-> here, item |-> <<>>]))

\* The items of the iterator up to its first None.
RECURSIVE ReaderItems(_, _, _, _, _, _)
ReaderItems(c, page_size, book, buf_size, reader, items) ==
    Then(ReaderNext(c, page_size, book, buf_size, reader),
    LAMBDA n :
        IF n.item = <<>> THEN [io |-> n.io, items |-> items]
        ELSE Then(items \o n.item,
             LAMBDA more : ReaderItems(n.io, page_size, book, buf_size, n.reader, more)))

\* FilesystemTree::open
TreeOpen(c, page_size, book) ==
    Then(BookRead(c, page_size, book, 0, 8),
    LAMBDA r :
    Then(from_be_bytes(r.buf),
    LAMBDA last_entry_addr :
        [io |-> r.io,
         tree |-> [book |-> book,
                   last_entry_addr |-> IF last_entry_addr = 0 THEN ROOT_OFFSET
                                       ELSE last_entry_addr]]))

\* FilesystemTree::read
TreeRead(c, page_size, tree, offset) ==
    Then(BookRead(c, page_size, tree.book, offset, ENTRY_LENGTH),
    LAMBDA r : [io |-> r.io, entry |-> EntryFromBytes(r.buf)])

\* FilesystemTree::write
TreeWrite(c, page_size, tree, offset, entry) ==
    Then(EntryToBytes(entry),
    LAMBDA bytes : BookWrite(c, page_size, tree.book, offset, bytes).io)

\* FilesystemTree::insert_child
TreeInsertChild(c, page_size, tree, buf_size, offset, entry) ==
    LET i == tree.last_entry_addr + ENTRY_LENGTH IN
    Then(TreeRead(c, page_size, tree, offset),
    LAMBDA p :
    Then(TreeWrite(p.io, page_size, tree, i, entry),
    LAMBDA c1 :
    Then(to_be_bytes(i, 8),
    LAMBDA last_entry_addr :
    Then(BookWrite(c1, page_size, tree.book, 0, last_entry_addr).io,
    LAMBDA c2 :
        [tree |-> [tree EXCEPT !.last_entry_addr = i],
         offset |-> i,
         io |->
            IF p.entry.child_addr = 0 THEN
                TreeWrite(c2, page_size, tree, offset, [p.entry EXCEPT !.child_addr = i])
            ELSE
                Then(ReaderItems(c2, page_size, tree.book, buf_size,
                                 TreeReader(p.entry.child_addr), <<>>),
                LAMBDA read :
                    IF read.items # <<>> THEN
                        \* reader.last(): Some((offset, child))
                        LET it == read.items[Len(read.items)] IN
                        TreeWrite(read.io, page_size, tree, it.offset,
                                  [it.entry EXCEPT !.sibling_addr = i])
                    ELSE
                        TreeWrite(read.io, page_size, tree, offset,
                                  [p.entry EXCEPT !.child_addr = i]))]))))

\* tests::children: FilesystemTree::open on the book of page 0.  inserted
\* lists the children given to insert_child with the offsets it returned.
InitEntry ==
    /\ IdleScheduler
    /\ worker_pc = "idle"
    /\ wrote = {}
    /\ last = [op |-> "open"]
    /\ \E page_size \in EntryPageSizes, buf_size \in EntryBufSizes :
       \E made \in {ExecCreatePage(FilesystemHeaderToBytes(
                        [page_size |-> page_size, flags |-> 1]), page_size, <<>>).io} :
       \E opened \in {TreeOpen(made, page_size,
                               [entry_page |-> 0, page_size |-> page_size])} :
           /\ header = [page_size |-> page_size, flags |-> 1]
           /\ io = opened.io
           /\ client = [kind |-> "entry", tree |-> opened.tree, buf_size |-> buf_size,
                        inserted |-> <<>>]

\* offset = tree.insert_child::<BUF_SIZE>(FilesystemTree::ROOT_OFFSET, entry)
InsertChildStep(entry) ==
    /\ Len(client.inserted) < MaxChildren
    /\ \E r \in {TreeInsertChild(io, header.page_size, client.tree, client.buf_size,
                                 ROOT_OFFSET, entry)} :
       /\ io' = r.io
       /\ client' = [client EXCEPT
                        !.tree = r.tree,
                        !.inserted = Append(@, [offset |-> r.offset, entry |-> entry])]
       /\ last' = [op |-> "insert_child", offset |-> r.offset]
    /\ UNCHANGED <<sched_vars, poll_vars, hist_vars, header, worker_pc, wrote>>

NextEntry ==
    \E name \in 1..MaxEntryName, inode \in 0..MaxEntryInode :
        InsertChildStep(EntryNew(name, inode))

SpecEntry == InitEntry /\ [][NextEntry]_vars

(***************************************************************************)
(* One client reading and writing a book and counting its pages.           *)
(***************************************************************************)
ChainPageSize == 2
MaxChainOffset == 3
MaxChainLength == 2
MaxChainIoLen == 43

\* Book::pages: <<pages>>, or <<>> when the walk over read_next_page comes
\* back to a page it has visited and so never ends.
RECURSIVE PagesFrom(_, _, _, _)
PagesFrom(c, page_size, page, seen) ==
    LET h == PageReadHeader(c, page_size, page) IN
    IF ~h.has_next THEN <<Cardinality(seen)>>
    ELSE IF h.next_page_number \in seen THEN <<>>
    ELSE PagesFrom(c, page_size, h.next_page_number, seen \cup {h.next_page_number})

BookPages(c, page_size, book) == PagesFrom(c, page_size, book.entry_page, {book.entry_page})

\* Book::open(Page::new(0, handler), page_size) on a new container, page 0
\* made by a CreatePage or not (as in the book tests).
InitChain ==
    /\ IdleScheduler
    /\ header = [page_size |-> ChainPageSize, flags |-> 1]
    /\ client = [kind |-> "book", entry_page |-> 0, page_size |-> ChainPageSize]
    /\ \E created \in BOOLEAN :
        io = IF created
                THEN ExecCreatePage(FilesystemHeaderToBytes(header), ChainPageSize, <<>>).io
                ELSE FilesystemHeaderToBytes(header)
    /\ worker_pc = "idle"
    /\ wrote = {}
    /\ last = [op |-> "open"]

\* What the operation found: the container and the pages of the book.
ChainBefore(op, offset, length) ==
    [op |-> op, offset |-> offset, length |-> length, io_before |-> io,
     pages_before |-> BookPages(io, header.page_size, client)]

ChainWrite(offset, bytes) ==
    /\ \E r \in {BookWrite(io, header.page_size, client, offset, bytes)} :
        /\ Len(r.io) <= MaxChainIoLen
        /\ io' = r.io
    /\ last' = ChainBefore("write", offset, Len(bytes))
    /\ UNCHANGED <<sched_vars, poll_vars, hist_vars, header, worker_pc, client, wrote>>

ChainRead(offset, length) ==
    /\ \E r \in {BookRead(io, header.page_size, client, offset, length)} :
        /\ Len(r.io) <= MaxChainIoLen
        /\ io' = r.io
    /\ last' = ChainBefore("read", offset, length)
    /\ UNCHANGED <<sched_vars, poll_vars, hist_vars, header, worker_pc, client, wrote>>

\* book.pages(), when it returns: it sends ReadPageHeader tasks only.
ChainPages ==
    /\ BookPages(io, header.page_size, client) # <<>>
    /\ last' = ChainBefore("pages", 0, 0)
    /\ UNCHANGED <<sched_vars, poll_vars, hist_vars, store_vars, client, wrote>>

NextChain ==
    \/ \E offset \in 0..MaxChainOffset, bytes \in ByteStrings(MaxChainLength) :
            ChainWrite(offset, bytes)
    \/ \E offset \in 0..MaxChainOffset, length \in 0..MaxChainLength :
            ChainRead(offset, length)
    \/ ChainPages

SpecChain == InitChain /\ [][NextChain]_vars

(***************************************************************************)
(* Two clients inserting into one tree.  All the tasks of insert are sent  *)
(* with the normal priority, so the worker executes them in the order they *)
(* were sent and a WritePage takes effect before every task sent after it; *)
(* a client waits for the page of its ReadPage before it goes on.  One     *)
(* pass of the loop is two steps: the ReadPage, and the scan of the page   *)
(* read with the tasks it sends.                                           *)
(***************************************************************************)
RaceClients == {1, 2}
MaxRaceKey == 2
MaxRaceInserts == 2

RacePageSizes == {RECORD_SIZE, 2 * RECORD_SHIFT, RECORD_SIZE + RECORD_SHIFT}

\* with_btree, and two threads that share the tree.
InitRace ==
    /\ IdleScheduler
    /\ \E page_size \in RacePageSizes :
        /\ header = [page_size |-> page_size, flags |-> 1]
        /\ io = CreatedPages(FilesystemHeaderToBytes(header), page_size, 1)
        /\ client = [kind |-> "race", entry_page |-> 0, page_size |-> page_size,
                     inserts |-> [id \in RaceClients |->
                        [pc |-> "idle", key |-> <<>>, value |-> <<>>, curr_page |-> 0,
                         page |-> <<>>, calls |-> 0]],
                     returned |-> {}, raced |-> FALSE]
    /\ worker_pc = "idle"
    /\ wrote = {}
    /\ last = [op |-> "none"]

\* btree.insert(&k.to_be_bytes(), value) is called: curr_page = entry_page.
\* The values tell the calls apart.
RaceInsert(id, k) ==
    LET mine == client.inserts[id] IN
    /\ mine.pc = "idle"
    /\ mine.calls < MaxRaceInserts
    /\ client' = [client EXCEPT
            !.inserts[id] = [mine EXCEPT !.pc = "read",
                                !.key = to_be_bytes(k, KEY_SIZE),
                                !.value = to_be_bytes(MaxRaceInserts * id + mine.calls,
                                                      VALUE_SIZE),
                                !.curr_page = client.entry_page,
                                !.calls = @ + 1],
            !.raced = @ \/ \E other \in RaceClients \ {id} :
                                client.inserts[other].pc \in {"read", "scan"}]
    /\ UNCHANGED <<sched_vars, poll_vars, hist_vars, store_vars, wrote, last>>

\* ReadPage { curr_page, 0, page_size } is executed and answered.
RaceRead(id) ==
    LET mine == client.inserts[id] IN
    /\ mine.pc = "read"
    /\ client' = [client EXCEPT
            !.inserts[id] = [mine EXCEPT !.pc = "scan",
                                !.page = ExecReadPage(io, header.page_size, mine.curr_page,
                                                      0, client.page_size)]]
    /\ UNCHANGED <<sched_vars, poll_vars, hist_vars, store_vars, wrote, last>>

\* The rest of the pass, over the page that was read.
RacePass(id) ==
    LET mine == client.inserts[id] IN
    /\ mine.pc = "scan"
    /\ \E pass \in {InsertPass(io, header.page_size, client, mine.curr_page,
                               mine.page, mine.key, mine.value)} :
        /\ io' = pass.io
        /\ client' = [client EXCEPT
                !.inserts[id] = [mine EXCEPT
                        !.pc = IF pass.outcome = "again" THEN "read"
                               ELSE IF pass.outcome = "ok" THEN "idle" ELSE "panic",
                        !.curr_page = pass.curr_page,
                        !.page = <<>>],
                !.returned = IF pass.outcome = "ok" THEN @ \cup {mine.key} ELSE @]
        /\ last' = [op |-> "pass", id |-> id, io_before |-> io, page |-> mine.curr_page,
                    read |-> mine.page, written |-> pass.written]
    /\ UNCHANGED <<sched_vars, poll_vars, hist_vars, header, worker_pc, wrote>>

NextRace ==
    \E id \in RaceClients :
        \/ \E k \in 0..MaxRaceKey : RaceInsert(id, k)
        \/ RaceRead(id)
        \/ RacePass(id)

SpecRace == InitRace /\ [][NextRace]_vars

(***************************************************************************)
(* The daemonized worker and scheduler with one client that keeps its      *)
(* handler and sends tasks that carry a reply channel.  Each thread is a   *)
(* loop that never ends by itself, so each of its steps is taken when it   *)
(* stays possible.                                                         *)
(***************************************************************************)
MaxLiveTasks == 2
LivePageSize == 2

LiveTasks ==
    {[kind |-> "ReadFilesystemHeader"],
     [kind |-> "CreatePage", parent_page_number |-> <<>>],
     [kind |-> "ReadPageHeader", page_number |-> 0],
     [kind |-> "ReadPage", page_number |-> 0, offset |-> 0, length |-> 1]}

\* FilesystemDriver::new, a CreatePage, daemonize(); two handlers: the
\* worker's and the client's clone.
InitLive ==
    /\ listener = <<>>
    /\ tasks_high = <<>>
    /\ tasks_normal = <<>>
    /\ tasks_low = <<>>
    /\ tasks_polls = <<>>
    /\ sched_pc = "recv"
    /\ last_task = <<>>
    /\ sender = 0
    /\ handlers = 2
    /\ rx = [p \in PollIds |-> "unused"]
    /\ tx_alive = [p \in PollIds |-> FALSE]
    /\ reply = [p \in PollIds |-> <<>>]
    /\ next_poll = 1
    /\ next_task = 1
    /\ task_prio = <<>>
    /\ pushed = <<>>
    /\ handed = <<>>
    /\ failed = {}
    /\ requeued = {}
    /\ header = [page_size |-> LivePageSize, flags |-> 1]
    /\ io = CreatedPages(FilesystemHeaderToBytes(header), LivePageSize, 1)
    /\ worker_pc = "idle"
    /\ client = [kind |-> "live", reply |-> <<>>]
    /\ wrote = {}
    /\ last = [op |-> "none"]

\* handler.send(task, priority) with a response_sender.
LiveSend(task, priority) ==
    /\ next_task <= MaxLiveTasks
    /\ ClientSend([id |-> next_task, from |-> "A"] @@ task, priority)
    /\ UNCHANGED client

NextLive ==
    \/ \E task \in LiveTasks, priority \in Priorities : LiveSend(task, priority)
    \/ WorkerPoll
    \/ WorkerExecute
    \/ SchedulerRecv
    \/ SchedulerServe
    \/ SchedulerSend

SpecLive ==
    /\ InitLive
    /\ [][NextLive]_vars
    /\ WF_vars(WorkerPoll)
    /\ WF_vars(WorkerExecute)
    /\ WF_vars(SchedulerRecv)
    /\ WF_vars(SchedulerServe)
    /\ WF_vars(SchedulerSend)

(***************************************************************************)
(* Properties of the scheduler.                                            *)
(***************************************************************************)
HandedIds == [i \in 1..Len(handed) |-> handed[i].task]
IsPrefix(a, b) == Len(a) <= Len(b) /\ a = SubSeq(b, 1, Len(a))
OfPriority(seq, pr) == SelectSeq(seq, LAMBDA t : task_prio[t] = pr)
Position(seq, x) == CHOOSE i \in 1..Len(seq) : seq[i] = x
Occurrences(seq, t) == Cardinality({i \in 1..Len(seq) : seq[i].id = t})
InQueues(t) == Occurrences(tasks_high, t) + Occurrences(tasks_normal, t)
                 + Occurrences(tasks_low, t)
Delivered(t) == Cardinality({i \in 1..Len(handed) : handed[i].task = t})
InHand(t) == IF last_task # <<>> /\ last_task[1].task.id = t THEN 1 ELSE 0
PushedIds == {pushed[i] : i \in 1..Len(pushed)}

\* C1: whenever the scheduler hands a task to a poller, no task of strictly
\* higher priority is held in its queues at that moment: a Normal task is
\* handed out only when the High queue is empty, a Low task only when the
\* High and the Normal queues are empty.
C1_NoHigherPriorityHeld ==
    [][Len(handed') > Len(handed) =>
        LET t == handed'[Len(handed')].task IN
        /\ task_prio[t] = "Normal" => tasks_high = <<>>
        /\ task_prio[t] = "Low" => tasks_high = <<>> /\ tasks_normal = <<>>]_vars

\* A Low task was handed out after a High task that the scheduler had
\* received later than it.
C1_Witness ==
    \E i, j \in 1..Len(handed) :
        /\ i < j
        /\ task_prio[handed[i].task] = "High"
        /\ task_prio[handed[j].task] = "Low"
        /\ Position(pushed, handed[j].task) < Position(pushed, handed[i].task)

\* C2: tasks pushed with the same priority are handed to pollers in the
\* order in which the scheduler received them, also after a failed hand-off
\* that put a task back at the front of its queue.
C2_FifoWithinPriority ==
    \A pr \in Priorities :
        IsPrefix(OfPriority(HandedIds, pr), OfPriority(pushed, pr))

\* Two tasks of one priority were handed out, the first of them after it
\* had been put back by push_front.
C2_Witness ==
    \E i, j \in 1..Len(handed) :
        /\ i < j
        /\ task_prio[handed[i].task] = task_prio[handed[j].task]
        /\ handed[i].task \in requeued

\* C3: a task taken from a queue is never lost and never delivered twice
\* when the send to its poller fails: every task the scheduler has received
\* is in exactly one queue (the one of its priority), or delivered to exactly
\* one poller, or held by the running update pass; between two passes it is
\* in a queue or delivered.
C3_TaskNeitherLostNorDuplicated ==
    sched_pc # "stopped" =>
        \A t \in PushedIds :
            /\ InQueues(t) + Delivered(t) + InHand(t) = 1
            /\ InHand(t) = 1 => sched_pc \in {"serve", "send"}
            /\ Occurrences(tasks_high, t) = 1 => task_prio[t] = "High"
            /\ Occurrences(tasks_normal, t) = 1 => task_prio[t] = "Normal"
            /\ Occurrences(tasks_low, t) = 1 => task_prio[t] = "Low"

\* A task whose send failed was delivered to a later poller of the same
\* pass; another one whose send failed is back in its queue between two
\* passes.
C3_Witness ==
    /\ \E t \in failed \ requeued : Delivered(t) = 1
    /\ \E t \in failed \cap requeued : InQueues(t) = 1 /\ sched_pc = "recv"

\* C4: a poll request that reaches the scheduler while all three queues are
\* empty stays pending with its reply channel open: a poller that still
\* waits and has received nothing has a live Sender (in the input channel,
\* in tasks_polls or in the hands of the running pass).
C4_PendingPollerKeepsChannel ==
    sched_pc # "stopped" =>
        \A p \in PollIds :
            (rx[p] = "waiting" /\ reply[p] = <<>>) => tx_alive[p]

(***************************************************************************)
(* Properties of the pipeline.                                             *)
(***************************************************************************)
\* C5: when one client sends WritePage(p, off, bytes) and then
\* ReadPage(p, off, len(bytes)) with the same priority, off + len(bytes)
\* within the page, the reply to the ReadPage equals bytes, whatever the
\* other clients send meanwhile to other pages.
C5_ReadPageSeesWrite ==
    client.pc = "done" => last.buf = client.bytes

\* The client got its reply, and a task of another client that changes the
\* container was executed between the client's two tasks.
C5_Witness ==
    /\ client.pc = "done"
    /\ Len(client.bytes) = PipePageSize
    /\ \E i, j, k \in 1..Len(handed) :
        /\ i < j /\ j < k
        /\ handed[i].task = client.write_id
        /\ handed[k].task = client.read_id

(***************************************************************************)
(* Properties of the book.                                                 *)
(***************************************************************************)
\* The page reached from page by following k next links, -1 if a link is
\* missing.
RECURSIVE ChainPage(_, _, _, _)
ChainPage(c, page_size, page, k) ==
    IF k = 0 THEN page
    ELSE LET h == ExecReadPageHeader(c, page_size, page) IN
         IF h.has_next THEN ChainPage(c, page_size, h.next_page_number, k - 1)
         ELSE -1

BodyByte(c, page_size, page, offset) ==
    IoRead(c, BodyPos(page_size, page) + offset, 1)[1]

\* C6: book round-trip: write(off, bytes) followed by read(off, len(bytes))
\* on the same book returns exactly bytes, in every reachable state of the
\* container.
C6_BookRoundTrip ==
    (last.op = "read" /\ last.after # <<>>) => last.buf = last.after[1]

\* C7: read(offset, length) returns exactly length bytes, byte i being body
\* byte (offset + i) mod page_size of the page reached by (offset + i) div
\* page_size next links from the entry page, and zero for every byte that
\* no write stored.
C7_BookReadBytes ==
    last.op = "read" =>
        /\ Len(last.buf) = last.length
        /\ \A i \in 1..last.length :
            LET pos == last.offset + i - 1
                page == ChainPage(io, header.page_size, client.entry_page,
                                  pos \div client.page_size)
                offset == pos % client.page_size
            IN  /\ page # -1
                /\ last.buf[i] = BodyByte(io, header.page_size, page, offset)
                /\ <<page, offset>> \notin wrote => last.buf[i] = 0

(***************************************************************************)
(* Properties of the tree.                                                 *)
(***************************************************************************)
\* The slots of the pages of the container that hold a record with a key:
\* <<page, offset>>.
KeySlots(c, page_size) ==
    {s \in (0..(TreePages(c, page_size) - 1)) \X (0..(page_size - 1)) :
        /\ s[2] % RECORD_SHIFT = 0
        /\ s[2] + RIGHT_ADDR_OFFSET <= page_size
        /\ HasFlag(BodyByte(c, page_size, s[1], s[2] + FLAG_OFFSET), FLAG_KEY_SET)}

SlotKey(c, page_size, s) ==
    [n \in 1..KEY_SIZE |-> BodyByte(c, page_size, s[1], s[2] + KEY_OFFSET + n - 1)]

SlotValue(c, page_size, s) ==
    [n \in 1..VALUE_SIZE |-> BodyByte(c, page_size, s[1], s[2] + VALUE_OFFSET + n - 1)]

StrictlyAscending(keys) == \A n \in 1..(Len(keys) - 1) : keys[n] < keys[n + 1]
StrictlyDescending(keys) == \A n \in 1..(Len(keys) - 1) : keys[n] > keys[n + 1]

\* C8: in a tree reached by one client's inserts, insert(k, v1) immediately
\* followed by insert(k, v2) leaves exactly one record with key k in the
\* whole tree, that record holds v2, v1 is stored nowhere, and the second
\* insert allocates no page.
C8_SameKeyUpdatesInPlace ==
    (last.op = "insert" /\ last.prev # <<>> /\ last.prev[1].key = last.key) =>
        LET slots == KeySlots(io, header.page_size)
            of_key == {s \in slots : SlotKey(io, header.page_size, s) = last.key}
        IN
        /\ client.state = "ready"
        /\ Cardinality(of_key) = 1
        /\ \A s \in of_key : SlotValue(io, header.page_size, s) = last.value
        /\ \A s \in slots : SlotValue(io, header.page_size, s) # last.prev[1].value
        /\ TreePages(io, header.page_size) = last.pages_before

\* The same key was inserted twice in a row into a tree of several pages,
\* and its record is not on the entry page.
C8_Witness ==
    /\ last.op = "insert"
    /\ last.prev # <<>>
    /\ last.prev[1].key = last.key
    /\ client.state = "ready"
    /\ TreePages(io, header.page_size) >= 2
    /\ \E s \in KeySlots(io, header.page_size) :
        /\ SlotKey(io, header.page_size, s) = last.key
        /\ s[1] # client.entry_page

\* C9: N >= 1 keys inserted in strictly ascending order into a tree whose
\* entry page is freshly created, with max_records(page_size) >= 1: every
\* insert returns and the tree has ceil(N / max_records(page_size)) pages,
\* the entry page included.
C9_AscendingFillsPages ==
    (client.keys # <<>> /\ StrictlyAscending(client.keys)
        /\ max_records(client.page_size) >= 1) =>
        /\ client.state = "ready"
        /\ TreePages(io, header.page_size) =
            (Len(client.keys) + max_records(client.page_size) - 1)
                \div max_records(client.page_size)

\* C10: N >= 1 keys inserted in strictly descending order into a tree whose
\* entry page is freshly created: every insert returns and the tree has N
\* pages, the entry page included.
C10_DescendingOnePagePerKey ==
    (client.keys # <<>> /\ StrictlyDescending(client.keys)) =>
        /\ client.state = "ready"
        /\ TreePages(io, header.page_size) = Len(client.keys)

\* C11: after any sequence of inserts by one client, no page holds more
\* than max_records(page_size) records, and every record written lies
\* wholly inside the page body: slot offset + RECORD_SIZE <= page_size.
C11_RecordsFitThePage ==
    LET slots == KeySlots(io, header.page_size) IN
    /\ \A s \in slots : s[2] + RECORD_SIZE <= header.page_size
    /\ \A page \in 0..(TreePages(io, header.page_size) - 1) :
        Cardinality({s \in slots : s[1] = page}) <= max_records(client.page_size)

(***************************************************************************)
(* Properties of the arithmetic.                                           *)
(***************************************************************************)
\* n * RECORD_SHIFT + (RECORD_SIZE - RECORD_SHIFT) <= page_size, computed on
\* one more byte than a u64 has, where it cannot overflow.
RecordsFit(n, page_size) ==
    LET wide == MulBytes(n \o <<0>>, RECORD_SHIFT, 0).value
        need == AddBytes(wide, U64(RECORD_SIZE - RECORD_SHIFT) \o <<0>>, 0).value
    IN  U64LessEq(need, page_size \o <<0>>)

\* C12: max_records() is the largest n >= 0 with
\* n * RECORD_SHIFT + (RECORD_SIZE - RECORD_SHIFT) <= page_size for every
\* page_size of 64 bits, also for page sizes too small for one record, and
\* its computation never overflows.
C12_MaxRecordsIsLargest ==
    last.op = "max_records" =>
        /\ ~last.result.panic
        /\ RecordsFit(last.result.value, last.page_size)
        /\ ~RecordsFit(U64Add(last.result.value, U64(1)).value, last.page_size)
        /\ ~U64Add(last.result.value, U64(1)).overflow

(***************************************************************************)
(* Properties of the worker.                                               *)
(***************************************************************************)
\* C13: every executed CreatePage makes the container longer by exactly
\* PAGE_HEADER_LEN + page_size, in every reachable state of the container.
C13_CreatePageGrowsByOnePage ==
    (last.op = "task" /\ last.task.kind = "CreatePage") =>
        Len(io) = Len(last.io_before) + PAGE_HEADER_LEN + last.page_size

\* A CreatePage was executed on a container whose length was in the middle
\* of a page.
C13_Witness ==
    /\ last.op = "task"
    /\ last.task.kind = "CreatePage"
    /\ (Len(last.io_before) - FS_HEADER_LEN) % PageStride(last.page_size) # 0

\* C14: for every CreatePage, in any reachable state of the container, the
\* header and the zeroed body it appends start at
\* FS_HEADER_LEN + n * (PAGE_HEADER_LEN + page_size) for the replied number
\* n: right after it ReadPageHeader(n) returns {prev = parent or 0,
\* next = 0, has_prev = parent given, has_next = false} and
\* ReadPage(n, 0, page_size) returns only zero bytes.
C14_CreatedPageAtItsPlace ==
    (last.op = "task" /\ last.task.kind = "CreatePage") =>
        LET n == last.sent[1]
            parent == last.task.parent_page_number
        IN
        /\ Len(last.io_before) = PagePos(header.page_size, n)
        /\ ExecReadPageHeader(io, header.page_size, n) =
                [prev_page_number |-> IF parent = <<>> THEN 0 ELSE parent[1],
                 next_page_number |-> 0,
                 has_prev |-> parent # <<>>,
                 has_next |-> FALSE]
        /\ ExecReadPage(io, header.page_size, n, 0, header.page_size) =
                Zeros(header.page_size)

\* C15: across any sequence of tasks executed by the worker, also with
\* WriteFilesystemHeader tasks that change page_size, the page numbers
\* replied by successive CreatePage tasks are strictly increasing, and each
\* is the number of pages that the length of the container implies when the
\* task executes.
C15_PageNumbersIncrease ==
    /\ \A i \in 1..(Len(client.created) - 1) : client.created[i] < client.created[i + 1]
    /\ (last.op = "task" /\ last.task.kind = "CreatePage") =>
            last.sent[1] = (Len(last.io_before) - FS_HEADER_LEN
                                + PageStride(last.page_size) - 1)
                            \div PageStride(last.page_size)

\* C16: for every page number and every offset and length of 64 bits,
\* ReadPage replies exactly min(length, page_size - offset) bytes when
\* offset < page_size and length > 0, and no byte when offset >= page_size
\* or length = 0; offset + length never wraps around.
C16_ReadPageLength ==
    last.op = "read_page" =>
        /\ ~last.result.panic
        /\ last.result.replied =
            IF U64Less(last.offset, last.page_size) /\ last.length # U64(0) THEN
                LET room == U64Sub(last.page_size, last.offset).value IN
                IF U64Less(last.length, room) THEN last.length ELSE room
            ELSE U64(0)

\* The byte at a position of the container, zero past its end.
ByteAt(c, pos) == IoRead(c, pos, 1)[1]

C18_CreateNextPage ==
    last.op = "create_next_page" =>
        LET p == last.page
            q == last.next
            was == ExecReadPageHeader(last.io_before, header.page_size, p)
        IN
        /\ was.has_next => (q = was.next_page_number /\ io = last.io_before)
        /\ ~was.has_next =>
            /\ Len(io) = Len(last.io_before) + PageStride(header.page_size)
            /\ ExecReadPageHeader(io, header.page_size, q).has_prev
            /\ ExecReadPageHeader(io, header.page_size, q).prev_page_number = p
            /\ ExecReadPageHeader(io, header.page_size, p).has_next
            /\ ExecReadPageHeader(io, header.page_size, p).next_page_number = q
        /\ last.again # <<>> => (q = last.again[1] /\ io = last.io_before)

\* No task is queued, in flight or being executed, and no client is inside
\* create_next_page.
Quiescent ==
    /\ \A c \in LinkClients : client.pc[c] = "idle"
    /\ Len(handed) = next_task - 1
    /\ reply[WorkerPollId] = <<>>

StoredPages(c, page_size) == (Len(c) - FS_HEADER_LEN) \div PageStride(page_size)

\* The links of page n are answered by the pages they name.
LinksAnswered(c, page_size, n) ==
    LET h == ExecReadPageHeader(c, page_size, n) IN
    /\ h.has_prev =>
        /\ ExecReadPageHeader(c, page_size, h.prev_page_number).has_next
        /\ ExecReadPageHeader(c, page_size, h.prev_page_number).next_page_number = n
    /\ h.has_next =>
        /\ ExecReadPageHeader(c, page_size, h.next_page_number).has_prev
        /\ ExecReadPageHeader(c, page_size, h.next_page_number).prev_page_number = n

\* C19: with any number of clients that change links only through
\* create_next_page, whenever no task is queued and no client is inside an
\* operation, every page with has_prev names a page whose header has
\* has_next and next = this page, and every page with has_next names a
\* page whose header has has_prev and prev = this page.
C19_LinksAgree ==
    Quiescent =>
        \A n \in 0..(StoredPages(io, header.page_size) - 1) :
            LinksAnswered(io, header.page_size, n)

(***************************************************************************)
(* Properties of the cached filesystem header.                             *)
(***************************************************************************)
\* C20: in every reachable state the header cached by the worker is the
\* decoding of the first 10 bytes of the container, and every reply to
\* ReadFilesystemHeader is the header of the last WriteFilesystemHeader
\* executed, or the header read at construction when there was none.
C20_HeaderCached ==
    worker_pc = "idle" =>
        /\ header = WideHeaderFromBytes(IoRead(io, 0, FS_HEADER_LEN))
        /\ (last.op = "task" /\ last.task.kind = "ReadFilesystemHeader") =>
                last.sent = client.written

(***************************************************************************)
(* Properties of a shared book.                                            *)
(***************************************************************************)
\* Both Book::write calls have returned and every task has been executed.
BothWritten ==
    /\ \A c \in LinkClients : client.pc[c] = "done"
    /\ Len(handed) = next_task - 1
    /\ reply[WorkerPollId] = <<>>

\* C21: two clients write at the same time through clones of one Book to
\* disjoint byte ranges, which may lie beyond the end of the page chain;
\* after both writes have completed, a read of each range through the book
\* returns the bytes written to that range.
C21_DisjointWritesKept ==
    BothWritten =>
        \A c \in LinkClients :
            BookRead(io, header.page_size, client.book, client.range[c].offset,
                     Len(client.range[c].bytes)).buf = client.range[c].bytes

(***************************************************************************)
(* Properties of tasks at different priorities.                            *)
(***************************************************************************)
\* The scheduler has taken task t from its queues for a poller.
Taken(t) == sched_pc = "send" /\ last_task # <<>> /\ last_task[1].task.id = t

\* Task a was handed to the worker, and task b was not handed before it.
HandedBefore(a, b) ==
    \E j \in 1..Len(handed) :
        handed[j].task = a /\ \A i \in 1..(j - 1) : handed[i].task # b

\* C22: one client sends a Low-priority WritePage and afterwards a
\* High-priority ReadPage of the same range.  The scheduler never takes the
\* write while the read is queued, and a read that is executed first
\* replies the bytes from before the write, else the bytes written; the
\* witness is the execution in which the read is executed first.
C22_HighReadOvertakes ==
    /\ Taken(client.write_id) => Occurrences(tasks_high, client.read_id) = 0
    /\ client.pc = "done" =>
            last.buf = IF HandedBefore(client.read_id, client.write_id)
                          THEN client.before ELSE client.bytes

\* The read was handed to the worker before the write, and its reply shows
\* the bytes from before the write, which differ from the bytes written.
C22_Witness ==
    /\ client.pc = "done"
    /\ HandedBefore(client.read_id, client.write_id)
    /\ last.buf = client.before
    /\ last.buf # client.bytes

(***************************************************************************)
(* Properties of dropped reply receivers.                                  *)
(***************************************************************************)
\* C23: when the client has dropped the receiver of a task's reply channel
\* before the task runs, the worker still executes the task with its full
\* effect on the container (CreatePage appends the page, WritePage stores
\* the bytes), reports no error, and goes on with the following tasks.
C23_DroppedReceiverIgnored ==
    /\ client.dropped # {} => worker_pc = "idle"
    /\ (last.op = "task" /\ ~last.alive) =>
        /\ ~last.delivered
        /\ last.task.kind = "CreatePage" =>
            /\ Len(io) = Len(last.io_before) + PageStride(last.page_size)
            /\ SubSeq(io, 1, Len(last.io_before)) = last.io_before
            /\ SubSeq(io, Len(last.io_before) + 1, Len(io)) =
                    PageHeaderToBytes(
                        [prev_page_number |->
                            IF last.task.parent_page_number = <<>> THEN 0
                            ELSE last.task.parent_page_number[1],
                         next_page_number |-> 0,
                         has_prev |-> last.task.parent_page_number # <<>>,
                         has_next |-> FALSE])
                    \o Zeros(last.page_size)
        /\ (last.task.kind = "WritePage" /\ last.task.offset < last.page_size) =>
            LET n == Min(Len(last.task.bytes), last.page_size - last.task.offset) IN
            ExecReadPage(io, last.page_size, last.task.page_number,
                         last.task.offset, n) = SubSeq(last.task.bytes, 1, n)

\* A task was executed and its reply delivered after an earlier CreatePage
\* or WritePage whose receiver had been dropped.
C23_Witness ==
    /\ last.op = "task"
    /\ last.after_dropped = {"CreatePage", "WritePage"}
    /\ last.delivered
    /\ worker_pc = "idle"

(***************************************************************************)
(* Properties of the scheduler's termination.                              *)
(***************************************************************************)
\* C24: update returns false, and the daemonized loop stops, only when
\* every handler, the worker's clone included, has been dropped and the
\* input channel holds no unread message; once every handler has been
\* dropped the loop does stop after draining the channel; while any handler
\* exists update returns true.
C24_StopsWhenClosedAndDrained ==
    /\ [][(sched_pc' = "stopped" /\ sched_pc # "stopped")
            => (handlers = 0 /\ listener = <<>>)]_vars
    /\ [](sched_pc = "stopped" => (handlers = 0 /\ listener = <<>>))
    /\ (handlers = 0) ~> (sched_pc = "stopped" /\ listener = <<>>)

\* The loop has stopped after a handler was cloned and every clone dropped,
\* and every task sent before had been read from the channel.
C24_Witness ==
    /\ sched_pc = "stopped"
    /\ handlers = 0
    /\ next_task > 1
    /\ Len(pushed) = next_task - 1
    /\ next_poll > 1

(***************************************************************************)
(* Properties of the worker that pumps its scheduler.                      *)
(***************************************************************************)
\* C25: when the worker has not been daemonized and at least one task has
\* been enqueued, a call to FilesystemWorker::update returns after
\* executing exactly one task.
C25_PumpedUpdateReturns ==
    /\ (client.mode = "pumped" /\ worker_pc = "pumping") ~> (worker_pc = "idle")
    /\ [][(client.mode = "pumped" /\ worker_pc # "idle" /\ worker_pc' = "idle")
            => (reply[WorkerPollId] # <<>> /\ reply'[WorkerPollId] = <<>>)]_vars

(***************************************************************************)
(* Properties of the prefix-buffered container.                            *)
(***************************************************************************)
\* C26: for every buffer size and every sequence of writes and appends
\* applied alike to a raw container and to a buffered one wrapping the same
\* content, no operation fails, len() is equal on both and read(0, len)
\* gives the same bytes on both, after every step.
C26_BufferedParity ==
    (last.op # "new" \/ ~client.wrapped.panic) =>
        /\ ~client.wrapped.panic
        /\ BufLen(client.wrapped) = IoLen(io)
        /\ BufRead(client.wrapped, 0, BufLen(client.wrapped)) = IoRead(io, 0, IoLen(io))

\* C27: from construction on and after every write and append the buffer
\* has length min(N, len of the wrapped container) and holds the wrapped
\* container's first bytes; it never grows beyond N.
C27_BufferIsPrefix ==
    LET b == client.wrapped IN
    /\ ~b.panic
    /\ Len(b.buf) = Min(b.size, IoLen(b.io))
    /\ b.buf = IoRead(b.io, 0, Min(b.size, IoLen(b.io)))
    /\ Len(b.buf) <= b.size

(***************************************************************************)
(* Properties of the entry tree.                                           *)
(***************************************************************************)
\* The items of tree.reader(root.child_addr, Sibling) in the current state.
ChildrenRead ==
    Then(TreeRead(io, header.page_size, client.tree, ROOT_OFFSET),
    LAMBDA root :
        ReaderItems(root.io, header.page_size, client.tree.book, client.buf_size,
                    TreeReader(root.entry.child_addr), <<>>).items)

\* C28: after one client has inserted c1..cn below a parent without a child,
\* the Sibling traversal from the parent's child_addr visits c1..cn in the
\* order of insertion, and its last item is cn at the offset that the n-th
\* insert_child returned.
C28_ChildrenTraversal ==
    client.inserted # <<>> =>
        \A read \in {ChildrenRead} :
            /\ Len(read) = Len(client.inserted)
            /\ \A k \in 1..Len(client.inserted) :
                /\ read[k].offset = client.inserted[k].offset
                /\ read[k].entry.name = client.inserted[k].entry.name
                /\ read[k].entry.inode = client.inserted[k].entry.inode

(***************************************************************************)
(* Properties of LinkPageForward.                                          *)
(***************************************************************************)
WideBodyLen == 3

\* The reply to ReadPageHeader of page q on container c with the cached
\* page size: <<header>>, or <<>> when the worker panics on the position.
WideHeaderOf(c, q) ==
    LET page_pos == WidePagePos(client.build, header.page_size, q) IN
    IF page_pos.panic THEN <<>>
    ELSE <<PageHeaderFromBytes(WideRead(c, page_pos.value, PAGE_HEADER_LEN))>>

\* The first bytes of the body of page q, at page_pos + PageHeader::LENGTH.
WideBodyOf(c, q) ==
    LET page_pos == WidePagePos(client.build, header.page_size, q)
        body_pos == U64Add(page_pos.value, U64(PAGE_HEADER_LEN))
        length == IF IsSmall(header.page_size)
                    THEN Min(from_le_bytes(header.page_size), WideBodyLen)
                    ELSE WideBodyLen
    IN  IF page_pos.panic \/ (client.build = "checked" /\ body_pos.overflow) THEN <<>>
        ELSE <<WideRead(c, body_pos.value, length)>>

\* C29: LinkPageForward(p, next) sets next_page_number = next and has_next
\* in the header of page p and leaves p's prev_page_number and has_prev,
\* p's body, and the header and body of every other page unchanged.
C29_LinkPageForwardFrame ==
    (last.op = "task" /\ last.task.kind = "LinkPageForward" /\ ~last.panic) =>
        LET p == last.task.page_number
            now == WideHeaderOf(io, p)[1]
            before == WideHeaderOf(last.io_before, p)[1]
        IN
        /\ now.next_page_number = last.task.next_page_number
        /\ now.has_next
        /\ now.prev_page_number = before.prev_page_number
        /\ now.has_prev = before.has_prev
        /\ \A q \in 0..MaxWidePage :
            /\ WideBodyOf(io, q) = WideBodyOf(last.io_before, q)
            /\ q # p => WideHeaderOf(io, q) = WideHeaderOf(last.io_before, q)

(***************************************************************************)
(* Properties of CreatePage on the pages before it.                        *)
(***************************************************************************)
\* C30: CreatePage changes no existing page: for every page number below
\* the one it replies, ReadPageHeader and ReadPage over the whole body give
\* the same before and after, for every parent argument.
C30_CreatePageFrame ==
    (last.op = "task" /\ last.task.kind = "CreatePage") =>
        \A q \in 0..(last.sent[1] - 1) :
            /\ ExecReadPageHeader(io, last.page_size, q)
                    = ExecReadPageHeader(last.io_before, last.page_size, q)
            /\ ExecReadPage(io, last.page_size, q, 0, last.page_size)
                    = ExecReadPage(last.io_before, last.page_size, q, 0, last.page_size)

(***************************************************************************)
(* Properties of the chain of a book.                                      *)
(***************************************************************************)
\* ceil(a / b)
CeilDiv(a, b) == (a + b - 1) \div b

\* C31: for one client, a Book read or write of [offset, offset + length)
\* with length >= 1 that ends beyond the chain grows the chain to exactly
\* ceil((offset + length) / page_size) pages as Book::pages counts them, and
\* no Book operation shortens the chain.
C31_ChainGrowsToRange ==
    (last.op \in {"read", "write", "pages"} /\ last.pages_before # <<>>) =>
        \A now \in {BookPages(io, header.page_size, client)} :
            /\ now # <<>>
            /\ now[1] >= last.pages_before[1]
            /\ (/\ last.op \in {"read", "write"}
                /\ last.length >= 1
                /\ last.offset + last.length > last.pages_before[1] * header.page_size)
                => now[1] = CeilDiv(last.offset + last.length, header.page_size)

StoredKeys(c, page_size) == {SlotKey(c, page_size, s) : s \in KeySlots(c, page_size)}

\* C32: two clients that insert two different keys into the same tree can
\* lose one of them: a state is reached where both inserts have returned,
\* every task is executed and one of the keys is stored in no page.  A key
\* of an insert that returned is missing only when two inserts overlapped.
C32_LostOnlyWhenRacing ==
    (\E key \in client.returned : key \notin StoredKeys(io, header.page_size))
        => client.raced

\* Each client has inserted one key, different keys, both inserts have
\* returned, and one of the keys is stored nowhere.
C32_Witness ==
    /\ \A id \in RaceClients :
        /\ client.inserts[id].pc = "idle"
        /\ client.inserts[id].calls = 1
        /\ client.inserts[id].key \in client.returned
    /\ client.inserts[1].key # client.inserts[2].key
    /\ \E id \in RaceClients :
        client.inserts[id].key \notin StoredKeys(io, header.page_size)

\* The record that from_bytes decodes at offset o of a page.
DecodedSlot(c, page_size, page, o) ==
    LET parsed == RecordFromBytes(ExecReadPage(c, page_size, page, o, RECORD_SIZE)) IN
    [kind |-> parsed.kind,
     record |-> IF parsed.kind = "some" THEN parsed.record
                ELSE [key |-> <<>>, value |-> <<>>, left_addr |-> <<>>, right_addr |-> <<>>]]

SlotOffsets(page_size) == {o \in 0..(page_size - 1) : o % RECORD_SHIFT = 0}

C34_InsertTerminates ==
    client.state # "hangs"

\* A search for key that reads the pages as insert does and takes the
\* comparisons and the child addresses insert takes: <<[page, offset,
\* value]>> of the record found, <<>> when there is none.  fuel bounds the
\* pages visited.
RECURSIVE SearchRecords(_, _, _, _, _, _, _, _, _)
SearchRecords(c, page_size, tree, curr_page, page, i, prev_record, key, fuel) ==
    LET parsed == RecordFromBytes(page)
        Descend(addr) ==
            IF addr = <<>> \/ fuel = 0 THEN <<>>
            ELSE SearchRecords(c, page_size, tree, addr[1],
                               ExecReadPage(c, page_size, addr[1], 0, tree.page_size),
                               0, <<>>, key, fuel - 1)
    IN
    IF parsed.kind = "panic" THEN <<>>
    ELSE IF parsed.kind = "none" THEN
        IF prev_record = <<>> THEN <<>> ELSE Descend(prev_record[1].right_addr)
    ELSE
        LET record == parsed.record IN
        IF record.key = <<>> THEN <<>>
        ELSE IF record.key[1] = key THEN
            <<[page |-> curr_page, offset |-> i, value |-> record.value]>>
        ELSE IF KeyGreater(record.key[1], key) THEN Descend(record.left_addr)
        ELSE SearchRecords(c, page_size, tree, curr_page, parsed.remaining,
                           i + RECORD_SHIFT, <<record>>, key, fuel)

TreeSearch(c, page_size, tree, key) ==
    SearchRecords(c, page_size, tree, tree.entry_page,
                  ExecReadPage(c, page_size, tree.entry_page, 0, tree.page_size),
                  0, <<>>, key, TreePages(c, page_size))

\* The number of the last insert of the key k.
LastInsertOf(keys, k) ==
    CHOOSE n \in 1..Len(keys) :
        keys[n] = k /\ \A m \in (n + 1)..Len(keys) : keys[m] # k

\* C35: after any sequence of inserts by one client, in any key order and
\* with repeated keys, every key ever inserted is found by the search that
\* follows insert's comparisons from the entry page, it is the key of
\* exactly one record of the whole tree, and that record holds the value
\* of the last insert of the key.
C35_EveryKeyFoundOnce ==
    \A n \in 1..Len(client.keys) :
        LET key == to_be_bytes(client.keys[n], KEY_SIZE)
            found == TreeSearch(io, header.page_size, client, key)
        IN
        /\ found # <<>>
        /\ Cardinality({s \in KeySlots(io, header.page_size) :
                            SlotKey(io, header.page_size, s) = key}) = 1
        /\ found[1].value
            = <<to_be_bytes(LastInsertOf(client.keys, client.keys[n]), VALUE_SIZE)>>

\* C36: after any sequence of inserts by one client, in every page of the
\* tree the slots whose key flag is set are the first slots of the page,
\* with no gap, and their keys increase strictly with the slot.
C36_PageKeysSorted ==
    LET slots == KeySlots(io, header.page_size) IN
    \A s \in slots :
        s[2] > 0 =>
            /\ <<s[1], s[2] - RECORD_SHIFT>> \in slots
            /\ from_be_bytes(SlotKey(io, header.page_size, s))
                > from_be_bytes(SlotKey(io, header.page_size, <<s[1], s[2] - RECORD_SHIFT>>))

\* A page holds two records with keys and another page holds one.
C36_Witness ==
    /\ client.kind = "tree"
    /\ Len(client.keys) >= 3
    /\ \E s \in KeySlots(io, header.page_size) :
        /\ s[2] > 0
        /\ \E t \in KeySlots(io, header.page_size) : t[1] # s[1]

\* The task was handed to the worker and the worker has executed it, which
\* sends the reply.
Answered(t) ==
    /\ \E i \in 1..Len(handed) : handed[i].task = t
    /\ reply[WorkerPollId] = <<>> \/ reply[WorkerPollId][1].id # t

\* C37: with the worker and the scheduler daemonized and a client handler
\* alive, every task that carries a reply channel is eventually executed
\* and answered, under fair scheduling of the threads and with finitely
\* many tasks sent; the worker thread never stops because it polled while
\* no task was queued.
C37_ReplyTasksAnswered ==
    /\ \A t \in 1..MaxLiveTasks : (next_task > t) ~> Answered(t)
    /\ [](worker_pc # "dead")

\* C39: with page_size unchanged and clients that link pages only through
\* create_next_page, on page handles of any page number, following the
\* next_page_number links from any page never comes back to a page already
\* visited, so the page walks of Book end.
C39_NoLinkCycle ==
    \A page \in 0..MaxPageNumber :
        PagesFrom(io, header.page_size, page, {page}) # <<>>

====
